---- MODULE Spec2Model ----
(***************************************************************************)
(* A model of drissionpage-mcp: the BrowserManager singleton               *)
(* (src/browser.py), the tool dispatcher call_tool (src/server.py) and the *)
(* tools that use the manager (src/tools/*.py).                            *)
(*                                                                         *)
(* Threads call the manager's methods.  A step of a thread is one read or  *)
(* one write of a field of the manager (self._browser, self._current_tab), *)
(* one acquisition of the lock, or one call into the browser-control       *)
(* library (Chromium(), quit(), latest_tab, new_tab(), close(), url...).   *)
(* A library call on a live browser or tab may succeed or raise; a call on *)
(* a browser whose process is gone or on a closed tab raises.              *)
(***************************************************************************)
EXTENDS Integers, Sequences, FiniteSets, TLC

\* ------------------------------------------------------------------ bounds
NumThreads == 2     \* threads that call into the manager
MaxCalls == 3       \* top-level calls issued in one run, all threads together
MaxLaunch == 2      \* browser processes launched in one run
MaxTabs == 2        \* tabs ever opened in one browser
MaxScrolls == 3     \* largest max_scrolls given to handle_infinite_scroll
MaxMeasure == 2     \* largest element count or page height measured
MaxContainers == 2  \* most elements the container selector of smart_extract matches
MaxFields == 2      \* most fields of a smart_extract or fill_form mapping
MaxRows == 2        \* most rows of the table given to extract_table_data
MaxCells == 2       \* most th cells, and most td cells, of a row of that table
MaxNodes == 3       \* most elements of a document given to the content pipeline
MaxLimit == 2       \* largest limit given to smart_extract
MaxText == 4        \* most characters of the text a converter writes for a page

Threads == 1..NumThreads
Browsers == 1..MaxLaunch

None == 0                  \* Python's None for self._browser
NoTab == <<0, 0>>          \* Python's None for a tab reference
NoLock == 0

VARIABLES
    browser,       \* BrowserManager._browser: None or the id of a launched browser
    current_tab,   \* BrowserManager._current_tab: NoTab or <<browser id, tab number>>
    lock,          \* BrowserManager._lock: NoLock or the thread holding it
    procs,         \* browser processes launched and not torn down
    tabs,          \* per browser: its open tabs, oldest first
    opened,        \* per browser: how many tabs it has ever opened
    launched,      \* how many browsers were ever launched (the last id)
    opts,          \* per browser: the options it was launched with
    calls,         \* top-level calls issued so far
    pc,            \* per thread: the statement it is at
    stk,           \* per thread: the return addresses of its nested calls
    op,            \* per thread: the top-level operation it runs
    arg,           \* per thread: the launch options its init_browser was given
    tab,           \* per thread: its local tab reference
    brw,           \* per thread: its local browser reference
    result,        \* per thread: the value last returned to it
    sawGone,       \* per thread: its get_status read self._browser as None
    stale,         \* per thread: the closed tab that was tracked when its get_current_tab began
    anyFail,       \* some library call raised without the code having caused it
    hs,            \* one handle_infinite_scroll call: its arguments, locals and history
    se,            \* one smart_extract call: its arguments, locals and result
    ff,            \* one fill_form call: its arguments, locals, result and the page's form
    et,            \* one extract_table_data call: the table, its locals and result
    md,            \* one page_to_markdown content pipeline: the document and its results
    sw             \* one switch_to_tab 'switch' request: its arguments and locals

vars == <<browser, current_tab, lock, procs, tabs, opened, launched, opts, calls,
          pc, stk, op, arg, tab, brw, result, sawGone, stale, anyFail,
          hs, se, ff, et, md, sw>>

\* the tool calls that are modelled on their own, one call each, and the arguments
\* of the switch request
toolcalls == <<hs, se, ff, et, md, sw>>

session == <<browser, current_tab, lock, procs, tabs, opened, launched, opts>>
locals == <<tab, brw, result, sawGone, stale>>

\* ------------------------------------------------------- the browser library
\* the tab handle h is usable: its browser process lives and the tab is open
TabLive(h) ==
    /\ h[1] \in procs
    /\ \E i \in 1..Len(tabs[h[1]]) : tabs[h[1]][i] = h[2]

\* Chromium.latest_tab of browser b: the most recently opened of its open tabs
LatestTab(b) == <<b, tabs[b][Len(tabs[b])]>>

\* latest_tab can answer: the process lives and has a tab
HasLatest(b) == b \in procs /\ Len(tabs[b]) > 0

\* the sequence s without its element x
Without(s, x) == SelectSeq(s, LAMBDA y : y # x)

\* needle is a substring of s
Contains(s, needle) ==
    \E x \in 0..Len(s) : x + Len(needle) <= Len(s) /\ SubSeq(s, x + 1, x + Len(needle)) = needle

\* ------------------------------------------------------------ result values
\* a returned dict: its keys, and the values of the keys the model follows
Res(kind, keys, success, running, t, n, stkeys) ==
    [kind |-> kind, keys |-> keys, success |-> success, running |-> running,
     tab |-> t, tab_count |-> n, st_keys |-> stkeys]

NoResult == Res("none", {}, FALSE, FALSE, NoTab, 0, {})

\* get_status: the four dicts it returns
StatusNotInit == Res("status_not_init", {"running", "message"}, FALSE, FALSE, NoTab, 0, {})
StatusNoTab == Res("status_no_tab", {"running", "message"}, FALSE, TRUE, NoTab, 0, {})
StatusOk(h, n) ==
    Res("status_ok", {"running", "url", "title", "tab_count", "message"}, FALSE, TRUE, h, n, {})
StatusErr == Res("status_err", {"running", "error"}, FALSE, FALSE, NoTab, 0, {})

\* init_browser: the three dicts it returns; st is the dict get_status returned
InitAlready(st) ==
    Res("init_already", {"success", "message", "status"}, TRUE, st.running, st.tab,
        st.tab_count, st.keys)
InitNew(st) ==
    Res("init_new", {"success", "message", "status"}, TRUE, st.running, st.tab,
        st.tab_count, st.keys)
InitFailed == Res("init_failed", {"success", "error"}, FALSE, FALSE, NoTab, 0, {})

\* close_browser: the three dicts it returns
CloseNotRunning == Res("close_not_running", {"success", "message"}, TRUE, FALSE, NoTab, 0, {})
CloseOk == Res("close_ok", {"success", "message"}, TRUE, FALSE, NoTab, 0, {})
CloseFailed == Res("close_failed", {"success", "error"}, FALSE, FALSE, NoTab, 0, {})

\* ensure_browser returns a bool, held in the success field
EnsureRes(b) == Res("ensure", {}, b, FALSE, NoTab, 0, {})

\* a tool function: the dict of its except branch and of its early failure returns,
\* and the dict of its normal return
ToolFailed == Res("tool_failed", {"success", "error"}, FALSE, FALSE, NoTab, 0, {})
ToolOk == Res("tool_ok", {"success", "message"}, TRUE, FALSE, NoTab, 0, {})

\* call_tool: the dict of its else branch (unknown name) and of its except branch
UnknownTool == Res("unknown_tool", {"success", "error"}, FALSE, FALSE, NoTab, 0, {})
CallError == Res("call_error", {"success", "error"}, FALSE, FALSE, NoTab, 0, {})

\* is_running()
IsRunning == browser # None

\* ------------------------------------------------------------- control flow
\* (a step of a thread of the session model leaves the tool calls modelled on
\* their own alone)
Goto(t, l) == pc' = [pc EXCEPT ![t] = l] /\ UNCHANGED toolcalls

\* call the function that starts at entry, and come back to back
Call(t, entry, back) ==
    /\ pc' = [pc EXCEPT ![t] = entry]
    /\ stk' = [stk EXCEPT ![t] = <<back>> \o stk[t]]
    /\ UNCHANGED toolcalls

\* return to the caller
Return(t) ==
    /\ pc' = [pc EXCEPT ![t] = Head(stk[t])]
    /\ stk' = [stk EXCEPT ![t] = Tail(stk[t])]
    /\ UNCHANGED toolcalls

\* handle_infinite_scroll before it is called with the arguments max_scrolls = m
\* and check_selector (given or not)
ScrollCall(m, sel) ==
    [pc |-> "begin", max_scrolls |-> m, check_selector |-> sel,
     i |-> 0, scroll_count |-> 0, last |-> 0,
     scrolls |-> 0, prev |-> -1, equal |-> FALSE, late |-> FALSE,
     first |-> -1, stop |-> "none",
     success |-> FALSE, reported |-> 0, final |-> 0]

\* no call of the tool is in progress
NoCall == [pc |-> "none"]

InitSession ==
    /\ browser = None
    /\ current_tab = NoTab
    /\ lock = NoLock
    /\ procs = {}
    /\ tabs = [b \in Browsers |-> <<>>]
    /\ opened = [b \in Browsers |-> 0]
    /\ launched = 0
    /\ opts = [b \in Browsers |-> "none"]
    /\ calls = 0
    /\ pc = [t \in Threads |-> "idle"]
    /\ stk = [t \in Threads |-> <<>>]
    /\ op = [t \in Threads |-> "none"]
    /\ arg = [t \in Threads |-> "none"]
    /\ tab = [t \in Threads |-> NoTab]
    /\ brw = [t \in Threads |-> None]
    /\ result = [t \in Threads |-> NoResult]
    /\ sawGone = [t \in Threads |-> FALSE]
    /\ stale = [t \in Threads |-> NoTab]
    /\ anyFail = FALSE
    /\ sw = NoCall

NoToolCalls == se = NoCall /\ ff = NoCall /\ et = NoCall /\ md = NoCall

Init == InitSession /\ hs = ScrollCall(0, FALSE) /\ NoToolCalls

\* ------------------------------------------------------------ top-level calls
CanStart(t) == pc[t] \in {"idle", "done"} /\ calls < MaxCalls

\* thread t issues operation o: its code starts at entry and returns through st
BeginCall(t, o, a, entry, st) ==
    /\ CanStart(t)
    /\ calls' = calls + 1
    /\ op' = [op EXCEPT ![t] = o]
    /\ arg' = [arg EXCEPT ![t] = a]
    /\ pc' = [pc EXCEPT ![t] = entry]
    /\ stk' = [stk EXCEPT ![t] = st]
    /\ tab' = [tab EXCEPT ![t] = NoTab]
    /\ brw' = [brw EXCEPT ![t] = None]
    /\ result' = [result EXCEPT ![t] = NoResult]
    /\ sawGone' = [sawGone EXCEPT ![t] = FALSE]
    /\ stale' = [stale EXCEPT ![t] = NoTab]
    /\ UNCHANGED <<session, anyFail>>

\* (the arguments of an earlier switch request are gone)
BeginIn(t, o, a, entry, st) ==
    /\ BeginCall(t, o, a, entry, st)
    /\ sw' = NoCall
    /\ UNCHANGED <<hs, se, ff, et, md>>

Begin(t, o, a, entry) == BeginIn(t, o, a, entry, <<"done">>)

StartInit(t) == \E a \in {"default", "custom"} : Begin(t, "init_browser", a, "ib_lock")
StartStatus(t) == Begin(t, "get_status", "none", "gs_check")
StartClose(t) == Begin(t, "close_browser", "none", "cb_lock")
StartEnsure(t) == Begin(t, "ensure_browser", "none", "eb_check")
\* switch_to_tab begins with browser_manager.ensure_browser()
StartTabNew(t) == BeginIn(t, "tab_new", "none", "eb_check", <<"tb_ensured", "done">>)
StartTabClose(t) == BeginIn(t, "tab_close", "none", "eb_check", <<"tb_ensured", "done">>)

\* ------------------------------------------- BrowserManager.init_browser
\* init_browser as it would be without the lock: the with statement left out
ib_lock_free(t) ==
    /\ pc[t] = "ib_lock"
    /\ Goto(t, "ib_check")
    /\ UNCHANGED <<session, calls, stk, op, arg, locals, anyFail>>

\* with self._lock:
ib_lock(t) ==
    /\ pc[t] = "ib_lock"
    /\ lock = NoLock
    /\ lock' = t
    /\ Goto(t, "ib_check")
    /\ UNCHANGED <<browser, current_tab, procs, tabs, opened, launched, opts, calls,
                   stk, op, arg, locals, anyFail>>

\* if self._browser is not None: ... "status": self.get_status()
ib_check(t) ==
    /\ pc[t] = "ib_check"
    /\ IF browser # None
          THEN Call(t, "gs_check", "ib_already")
          ELSE Goto(t, "ib_launch") /\ UNCHANGED stk
    /\ UNCHANGED <<session, calls, op, arg, locals, anyFail>>

\* the except branch of init_browser: the lock is released on the way out
InitRaise(t) ==
    /\ result' = [result EXCEPT ![t] = InitFailed]
    /\ lock' = NoLock
    /\ Return(t)

\* options = ChromiumOptions() ...; self._browser = Chromium(addr_or_opts=options)
ib_launch(t) ==
    /\ pc[t] = "ib_launch"
    /\ \E ok \in BOOLEAN :
         IF ok /\ launched < MaxLaunch
            THEN /\ launched' = launched + 1
                 /\ browser' = launched + 1
                 /\ procs' = procs \cup {launched + 1}
                 /\ tabs' = [tabs EXCEPT ![launched + 1] = <<1>>]
                 /\ opened' = [opened EXCEPT ![launched + 1] = 1]
                 /\ opts' = [opts EXCEPT ![launched + 1] = arg[t]]
                 /\ Goto(t, "ib_tab")
                 /\ UNCHANGED <<lock, stk, result, anyFail>>
            ELSE /\ InitRaise(t)
                 /\ anyFail' = TRUE
                 /\ UNCHANGED <<browser, procs, tabs, opened, launched, opts>>
    /\ UNCHANGED <<current_tab, calls, op, arg, tab, brw, sawGone, stale>>

\* self._current_tab = self._browser.latest_tab ... "status": self.get_status()
ib_tab(t) ==
    /\ pc[t] = "ib_tab"
    /\ \E ok \in BOOLEAN :
         IF ok /\ HasLatest(browser)
            THEN /\ current_tab' = LatestTab(browser)
                 /\ Call(t, "gs_check", "ib_new")
                 /\ UNCHANGED <<lock, result, anyFail>>
            ELSE /\ InitRaise(t)
                 /\ anyFail' = (anyFail \/ HasLatest(browser))
                 /\ UNCHANGED current_tab
    /\ UNCHANGED <<browser, procs, tabs, opened, launched, opts, calls, op, arg,
                   tab, brw, sawGone, stale>>

\* return {"success": True, "message": ..., "status": ...}, leaving the with block
ib_return(t) ==
    /\ pc[t] \in {"ib_already", "ib_new"}
    /\ result' = [result EXCEPT ![t] =
                    IF pc[t] = "ib_already" THEN InitAlready(result[t])
                                            ELSE InitNew(result[t])]
    /\ lock' = NoLock
    /\ Return(t)
    /\ UNCHANGED <<browser, current_tab, procs, tabs, opened, launched, opts, calls,
                   op, arg, tab, brw, sawGone, stale, anyFail>>

\* ------------------------------------------- BrowserManager.get_status
\* if self._browser is None: return {"running": False, ...}; tab = self.get_current_tab()
gs_check(t) ==
    /\ pc[t] = "gs_check"
    /\ sawGone' = [sawGone EXCEPT ![t] = (browser = None)]
    /\ IF browser = None
          THEN /\ result' = [result EXCEPT ![t] = StatusNotInit]
               /\ Return(t)
          ELSE /\ Call(t, "gc_check", "gs_tab")
               /\ UNCHANGED result
    /\ UNCHANGED <<session, calls, op, arg, tab, brw, stale, anyFail>>

\* if tab is None: return {"running": True, ...}
gs_tab(t) ==
    /\ pc[t] = "gs_tab"
    /\ IF tab[t] = NoTab
          THEN /\ result' = [result EXCEPT ![t] = StatusNoTab]
               /\ Return(t)
          ELSE /\ Goto(t, "gs_count")
               /\ UNCHANGED <<stk, result>>
    /\ UNCHANGED <<session, calls, op, arg, tab, brw, sawGone, stale, anyFail>>

\* tab_count = len(self._browser.get_tabs()) if hasattr(self._browser, 'get_tabs') else 1
\* except: tab_count = 1
gs_count(t) ==
    /\ pc[t] = "gs_count"
    /\ \E ok \in BOOLEAN :
         /\ result' = [result EXCEPT ![t] =
                StatusOk(tab[t], IF browser # None /\ browser \in procs /\ ok
                                    THEN Len(tabs[browser]) ELSE 1)]
         /\ anyFail' = (anyFail \/ (browser # None /\ browser \in procs /\ ~ok))
    /\ sawGone' = [sawGone EXCEPT ![t] = sawGone[t] \/ browser = None]
    /\ Goto(t, "gs_url")
    /\ UNCHANGED <<session, calls, stk, op, arg, tab, brw, stale>>

\* "url": tab.url, "title": tab.title ... except Exception: return {"running": False, "error": ...}
gs_url(t) ==
    /\ pc[t] = "gs_url"
    /\ \E ok \in BOOLEAN :
         IF ok /\ TabLive(tab[t])
            THEN UNCHANGED <<result, anyFail>>
            ELSE /\ result' = [result EXCEPT ![t] = StatusErr]
                 /\ anyFail' = (anyFail \/ TabLive(tab[t]))
    /\ Return(t)
    /\ UNCHANGED <<session, calls, op, arg, tab, brw, sawGone, stale>>

\* ------------------------------------------- BrowserManager.get_current_tab
\* if self._browser is None: return None
gc_check(t) ==
    /\ pc[t] = "gc_check"
    /\ stale' = [stale EXCEPT ![t] =
                   IF browser # None /\ browser \in procs /\ current_tab # NoTab
                      /\ ~TabLive(current_tab)
                      THEN current_tab ELSE NoTab]
    /\ sawGone' = [sawGone EXCEPT ![t] = sawGone[t] \/ browser = None]
    /\ IF browser = None
          THEN /\ tab' = [tab EXCEPT ![t] = NoTab]
               /\ Return(t)
          ELSE /\ Goto(t, "gc_cur")
               /\ UNCHANGED <<stk, tab>>
    /\ UNCHANGED <<session, calls, op, arg, brw, result, anyFail>>

\* if self._current_tab is None:
gc_cur(t) ==
    /\ pc[t] = "gc_cur"
    /\ Goto(t, IF current_tab = NoTab THEN "gc_latest" ELSE "gc_ret")
    /\ UNCHANGED <<session, calls, stk, op, arg, locals, anyFail>>

\* an exception leaves get_current_tab: the caller's except branch returns its failure dict
\* (get_status: {"running": False, "error": ...}; a tool: {"success": False, "error": ...})
GctRaise(t) ==
    /\ result' = [result EXCEPT ![t] =
                    IF Head(stk[t]) = "gs_tab" THEN StatusErr
                    ELSE ToolFailed]
    /\ pc' = [pc EXCEPT ![t] = stk[t][2]]
    /\ stk' = [stk EXCEPT ![t] = Tail(Tail(stk[t]))]
    /\ UNCHANGED toolcalls

\* ... = self._browser.latest_tab
gc_latest(t) ==
    /\ pc[t] = "gc_latest"
    /\ sawGone' = [sawGone EXCEPT ![t] = sawGone[t] \/ browser = None]
    /\ \E ok \in BOOLEAN :
         IF ok /\ browser # None /\ HasLatest(browser)
            THEN /\ tab' = [tab EXCEPT ![t] = LatestTab(browser)]
                 /\ Goto(t, "gc_write")
                 /\ UNCHANGED <<stk, result, anyFail>>
            ELSE /\ GctRaise(t)
                 /\ anyFail' = (anyFail \/ (browser # None /\ HasLatest(browser)))
                 /\ UNCHANGED tab
    /\ UNCHANGED <<session, calls, op, arg, brw, stale>>

\* self._current_tab = ...   (no lock is held here)
gc_write(t) ==
    /\ pc[t] = "gc_write"
    /\ current_tab' = tab[t]
    /\ Goto(t, "gc_ret")
    /\ UNCHANGED <<browser, lock, procs, tabs, opened, launched, opts, calls, stk, op,
                   arg, locals, anyFail>>

\* return self._current_tab
gc_ret(t) ==
    /\ pc[t] = "gc_ret"
    /\ tab' = [tab EXCEPT ![t] = current_tab]
    /\ Return(t)
    /\ UNCHANGED <<session, calls, op, arg, brw, result, sawGone, stale, anyFail>>

\* ------------------------------------------- BrowserManager.close_browser
\* with self._lock:
cb_lock(t) ==
    /\ pc[t] = "cb_lock"
    /\ lock = NoLock
    /\ lock' = t
    /\ Goto(t, "cb_check")
    /\ UNCHANGED <<browser, current_tab, procs, tabs, opened, launched, opts, calls,
                   stk, op, arg, locals, anyFail>>

\* if self._browser is None: return {"success": True, "message": ...}
cb_check(t) ==
    /\ pc[t] = "cb_check"
    /\ IF browser = None
          THEN /\ result' = [result EXCEPT ![t] = CloseNotRunning]
               /\ lock' = NoLock
               /\ Return(t)
          ELSE /\ Goto(t, "cb_quit")
               /\ UNCHANGED <<lock, stk, result>>
    /\ UNCHANGED <<browser, current_tab, procs, tabs, opened, launched, opts, calls,
                   op, arg, tab, brw, sawGone, stale, anyFail>>

\* self._browser.quit(): it returns with the process torn down, or it raises, and
\* then the process is torn down or is still there
cb_quit(t) ==
    /\ pc[t] = "cb_quit"
    /\ \E ok \in BOOLEAN, gone \in BOOLEAN :
         /\ ok => gone
         /\ gone => browser \in procs
         /\ procs' = IF gone THEN procs \ {browser} ELSE procs
         /\ anyFail' = (anyFail \/ (~ok /\ browser \in procs))
         /\ Goto(t, IF ok THEN "cb_ok_b" ELSE "cb_ex_b")
    /\ UNCHANGED <<browser, current_tab, lock, tabs, opened, launched, opts, calls,
                   stk, op, arg, locals>>

\* close_browser as it would be if the except branch did not clear the references
CloseClearsOnSuccess(ok) == IF ok THEN {"browser", "tab"} ELSE {}

\* the references close_browser clears after quit() returned (True) or raised (False)
CloseClears(ok) == {"browser", "tab"}

\* self._browser = None   (after quit(), and again in the except branch)
cb_clear_b(t) ==
    /\ pc[t] \in {"cb_ok_b", "cb_ex_b"}
    /\ browser' = IF "browser" \in CloseClears(pc[t] = "cb_ok_b") THEN None ELSE browser
    /\ Goto(t, IF pc[t] = "cb_ok_b" THEN "cb_ok_t" ELSE "cb_ex_t")
    /\ UNCHANGED <<current_tab, lock, procs, tabs, opened, launched, opts, calls,
                   stk, op, arg, locals, anyFail>>

\* self._current_tab = None; return {...}, leaving the with block
cb_clear_t(t) ==
    /\ pc[t] \in {"cb_ok_t", "cb_ex_t"}
    /\ current_tab' = IF "tab" \in CloseClears(pc[t] = "cb_ok_t") THEN NoTab ELSE current_tab
    /\ result' = [result EXCEPT ![t] = IF pc[t] = "cb_ok_t" THEN CloseOk ELSE CloseFailed]
    /\ lock' = NoLock
    /\ Return(t)
    /\ UNCHANGED <<browser, procs, tabs, opened, launched, opts, calls, op, arg,
                   tab, brw, sawGone, stale, anyFail>>

\* ------------------------------------------- BrowserManager.ensure_browser
\* if not self.is_running(): result = self.init_browser() ... return True
eb_check(t) ==
    /\ pc[t] = "eb_check"
    /\ IF IsRunning
          THEN /\ result' = [result EXCEPT ![t] = EnsureRes(TRUE)]
               /\ Return(t)
               /\ UNCHANGED arg
          ELSE /\ Call(t, "ib_lock", "eb_ret")
               /\ arg' = [arg EXCEPT ![t] = "default"]
               /\ UNCHANGED result
    /\ UNCHANGED <<session, calls, op, tab, brw, sawGone, stale, anyFail>>

\* ensure_browser as it would be if only a fresh launch counted as success
eb_ret_fresh(t) ==
    /\ pc[t] = "eb_ret"
    /\ result' = [result EXCEPT ![t] = EnsureRes(result[t].kind = "init_new")]
    /\ Return(t)
    /\ UNCHANGED <<session, calls, op, arg, tab, brw, sawGone, stale, anyFail>>

\* return result.get("success", False)
eb_ret(t) ==
    /\ pc[t] = "eb_ret"
    /\ result' = [result EXCEPT ![t] =
                    EnsureRes("success" \in result[t].keys /\ result[t].success)]
    /\ Return(t)
    /\ UNCHANGED <<session, calls, op, arg, tab, brw, sawGone, stale, anyFail>>

\* ------------------------------------------- tools.advanced.switch_to_tab
\* a tool function returns its failure dict
ToolFail(t) ==
    /\ result' = [result EXCEPT ![t] = ToolFailed]
    /\ Return(t)

\* if not browser_manager.ensure_browser(): return {"success": False, ...}
tb_ensured(t) ==
    /\ pc[t] = "tb_ensured"
    /\ IF result[t].success
          THEN Goto(t, "tb_browser") /\ UNCHANGED <<stk, result>>
          ELSE ToolFail(t)
    /\ UNCHANGED <<session, calls, op, arg, tab, brw, sawGone, stale, anyFail>>

\* browser = browser_manager.get_browser(); if browser is None: return {...}
\* action == "close": current_tab = browser_manager.get_current_tab()
tb_browser(t) ==
    /\ pc[t] = "tb_browser"
    /\ brw' = [brw EXCEPT ![t] = browser]
    /\ IF browser = None
          THEN ToolFail(t)
          ELSE IF op[t] = "tab_new"
                  THEN Goto(t, "tn_new") /\ UNCHANGED <<stk, result>>
          ELSE IF op[t] = "tab_switch"
                  THEN Goto(t, "ts_tabs") /\ UNCHANGED <<stk, result>>
                  ELSE Call(t, "gc_check", "tc_got") /\ UNCHANGED result
    /\ UNCHANGED <<session, calls, op, arg, tab, sawGone, stale, anyFail>>

\* new_tab = browser.new_tab(url or "about:blank")
tn_new(t) ==
    /\ pc[t] = "tn_new"
    /\ \E ok \in BOOLEAN :
         IF ok /\ brw[t] \in procs /\ opened[brw[t]] < MaxTabs
            THEN /\ opened' = [opened EXCEPT ![brw[t]] = @ + 1]
                 /\ tabs' = [tabs EXCEPT ![brw[t]] = Append(@, opened[brw[t]] + 1)]
                 /\ tab' = [tab EXCEPT ![t] = <<brw[t], opened[brw[t]] + 1>>]
                 /\ Goto(t, "tn_set")
                 /\ UNCHANGED <<stk, result, anyFail>>
            ELSE /\ ToolFail(t)
                 /\ anyFail' = (anyFail \/ brw[t] \in procs)
                 /\ UNCHANGED <<opened, tabs, tab>>
    /\ UNCHANGED <<browser, current_tab, lock, procs, launched, opts, calls, op, arg,
                   brw, sawGone, stale>>

\* BrowserManager.set_current_tab: self._current_tab = tab   (no lock is held here)
set_current_tab(t) ==
    /\ pc[t] \in {"tn_set", "tc_set", "ts_set"}
    /\ current_tab' = tab[t]
    /\ IF pc[t] \in {"tn_set", "ts_set"}
          THEN Goto(t, "tn_url") /\ UNCHANGED <<stk, result>>
          ELSE result' = [result EXCEPT ![t] = ToolOk] /\ Return(t)
    /\ UNCHANGED <<browser, lock, procs, tabs, opened, launched, opts, calls, op, arg,
                   tab, brw, sawGone, stale, anyFail>>

\* return {"success": True, "url": new_tab.url, "title": new_tab.title, ...}
\* (new), return {"success": True, ..., "url": target_tab.url, ...} (switch)
tn_url(t) ==
    /\ pc[t] = "tn_url"
    /\ \E ok \in BOOLEAN :
         /\ result' = [result EXCEPT ![t] =
                         IF ok /\ TabLive(tab[t]) THEN ToolOk ELSE ToolFailed]
         /\ anyFail' = (anyFail \/ (~ok /\ TabLive(tab[t])))
    /\ Return(t)
    /\ UNCHANGED <<session, calls, op, arg, tab, brw, sawGone, stale>>

\* (index is None) if current_tab: ... else: return {"success": False, ...}
tc_got(t) ==
    /\ pc[t] = "tc_got"
    /\ IF tab[t] = NoTab
          THEN ToolFail(t)
          ELSE Goto(t, "tc_close") /\ UNCHANGED <<stk, result>>
    /\ UNCHANGED <<session, calls, op, arg, tab, brw, sawGone, stale, anyFail>>

\* current_tab.close()
tc_close(t) ==
    /\ pc[t] = "tc_close"
    /\ \E ok \in BOOLEAN :
         IF ok /\ TabLive(tab[t])
            THEN /\ tabs' = [tabs EXCEPT ![tab[t][1]] = Without(@, tab[t][2])]
                 /\ Goto(t, "tc_latest")
                 /\ UNCHANGED <<stk, result, anyFail>>
            ELSE /\ ToolFail(t)
                 /\ anyFail' = (anyFail \/ TabLive(tab[t]))
                 /\ UNCHANGED tabs
    /\ UNCHANGED <<browser, current_tab, lock, procs, opened, launched, opts, calls,
                   op, arg, tab, brw, sawGone, stale>>

\* browser_manager.set_current_tab(browser.latest_tab): the argument
tc_latest(t) ==
    /\ pc[t] = "tc_latest"
    /\ \E ok \in BOOLEAN :
         IF ok /\ HasLatest(brw[t])
            THEN /\ tab' = [tab EXCEPT ![t] = LatestTab(brw[t])]
                 /\ Goto(t, "tc_set")
                 /\ UNCHANGED <<stk, result, anyFail>>
            ELSE /\ ToolFail(t)
                 /\ anyFail' = (anyFail \/ HasLatest(brw[t]))
                 /\ UNCHANGED tab
    /\ UNCHANGED <<session, calls, op, arg, brw, sawGone, stale>>

\* ------------------------------------- tools.advanced.switch_to_tab, action 'switch'
\* A text is a sequence of characters, a character a number.  The tab with number k
\* shows the url <<0, k>> and the title <<0, MaxTabs + 1 - k>>: a pattern is in the
\* url of the first tab, of every tab, or of none, and in the title of the last.  An
\* argument that is None is <<>>, and so is the empty string; an index that is
\* given is <<n>>.
Url(h) == <<0, h[2]>>
Title(h) == <<0, MaxTabs + 1 - h[2]>>

Patterns == {<<>>, <<0>>, <<1>>, <<MaxTabs + 1>>}
Indexes == {<<>>} \cup {<<n>> : n \in (-1)..MaxTabs}

\* the request before its first statement
SwitchCall(index, url, title_pattern) ==
    [index |-> index, url |-> url, title_pattern |-> title_pattern,
     tabs |-> <<>>, listed |-> FALSE, i |-> 0, before |-> NoTab, how |-> "none"]

\* the choice as it would be if url were looked at before index
CriterionUrlFirst(s) ==
    IF s.url # <<>> THEN "url"
    ELSE IF s.index # <<>> THEN "index"
    ELSE IF s.title_pattern # <<>> THEN "title"
    ELSE "none"

\* if index is not None: ... elif url: ... elif title_pattern: ... else: ...
Criterion(s) ==
    IF s.index # <<>> THEN "index"
    ELSE IF s.url # <<>> THEN "url"
    ELSE IF s.title_pattern # <<>> THEN "title"
    ELSE "none"

StartTabSwitch(t) ==
    \E index \in Indexes, url \in Patterns, title_pattern \in Patterns :
       /\ BeginCall(t, "tab_switch", "none", "eb_check", <<"tb_ensured", "done">>)
       /\ sw' = SwitchCall(index, url, title_pattern)
       /\ UNCHANGED <<hs, se, ff, et, md>>

\* the orders in which the library may list the tabs q
Orders(q) ==
    {o \in [1..Len(q) -> {q[k] : k \in 1..Len(q)}] :
        \A x \in 1..Len(q), y \in 1..Len(q) : o[x] = o[y] => x = y}

\* what a step of the request leaves alone
SwitchFrame == UNCHANGED <<session, calls, op, arg, brw, sawGone, stale, hs, se, ff, et, md>>

\* the request returns {"success": False, "error": ...}
SwitchFail(t, why) ==
    /\ result' = [result EXCEPT ![t] = ToolFailed]
    /\ pc' = [pc EXCEPT ![t] = Head(stk[t])]
    /\ stk' = [stk EXCEPT ![t] = Tail(stk[t])]
    /\ sw' = [sw EXCEPT !.how = why]

\* try: tabs = browser.get_tabs() ... except: tabs = [browser_manager.get_current_tab()]
ts_tabs(t) ==
    /\ pc[t] = "ts_tabs"
    /\ \E ok \in BOOLEAN :
         IF ok /\ brw[t] \in procs
            THEN /\ \E o \in Orders(tabs[brw[t]]) :
                      sw' = [sw EXCEPT !.tabs = [k \in 1..Len(o) |-> <<brw[t], o[k]>>],
                                       !.listed = TRUE, !.before = current_tab]
                 /\ pc' = [pc EXCEPT ![t] = "ts_pick"]
                 /\ UNCHANGED <<stk, anyFail>>
            ELSE /\ sw' = [sw EXCEPT !.before = current_tab]
                 /\ pc' = [pc EXCEPT ![t] = "gc_check"]
                 /\ stk' = [stk EXCEPT ![t] = <<"ts_fallback">> \o stk[t]]
                 /\ anyFail' = (anyFail \/ brw[t] \in procs)
    /\ UNCHANGED <<tab, result>>
    /\ SwitchFrame

\* tabs = [browser_manager.get_current_tab()]
ts_fallback(t) ==
    /\ pc[t] = "ts_fallback"
    /\ sw' = [sw EXCEPT !.tabs = <<tab[t]>>]
    /\ pc' = [pc EXCEPT ![t] = "ts_pick"]
    /\ UNCHANGED <<stk, tab, result, anyFail>>
    /\ SwitchFrame

\* if index is not None: if 0 <= index < len(tabs): target_tab = tabs[index] ...
\* elif url: for tab in tabs: ...   elif title_pattern: for tab in tabs: ...
\* else: return {"success": False, ...}
ts_pick(t) ==
    /\ pc[t] = "ts_pick"
    /\ IF Criterion(sw) = "index"
          THEN IF 0 <= sw.index[1] /\ sw.index[1] < Len(sw.tabs)
                  THEN /\ tab' = [tab EXCEPT ![t] = sw.tabs[sw.index[1] + 1]]
                       /\ sw' = [sw EXCEPT !.how = "set"]
                       /\ pc' = [pc EXCEPT ![t] = "ts_set"]
                       /\ UNCHANGED <<stk, result>>
                  ELSE SwitchFail(t, "range") /\ UNCHANGED tab
       ELSE IF Criterion(sw) = "none"
          THEN SwitchFail(t, "no_criterion") /\ UNCHANGED tab
          ELSE /\ sw' = [sw EXCEPT !.i = 1]
               /\ pc' = [pc EXCEPT ![t] = "ts_scan"]
               /\ UNCHANGED <<stk, tab, result>>
    /\ UNCHANGED anyFail
    /\ SwitchFrame

\* for tab in tabs: if url in tab.url: (if title_pattern in tab.title:) ...
\* return {"success": False, "error": ...} when the loop ends
ts_scan(t) ==
    /\ pc[t] = "ts_scan"
    /\ IF sw.i > Len(sw.tabs)
          THEN SwitchFail(t, "no_match") /\ UNCHANGED <<tab, anyFail>>
          ELSE \E ok \in BOOLEAN :
                 LET h == sw.tabs[sw.i]
                     text == IF Criterion(sw) = "url" THEN Url(h) ELSE Title(h)
                     pattern == IF Criterion(sw) = "url" THEN sw.url ELSE sw.title_pattern
                 IN  IF ~(ok /\ TabLive(h))
                        THEN /\ SwitchFail(t, "raised")
                             /\ anyFail' = (anyFail \/ TabLive(h))
                             /\ UNCHANGED tab
                     ELSE IF Contains(text, pattern)
                        THEN /\ tab' = [tab EXCEPT ![t] = h]
                             /\ sw' = [sw EXCEPT !.how = "set"]
                             /\ pc' = [pc EXCEPT ![t] = "ts_set"]
                             /\ UNCHANGED <<stk, result, anyFail>>
                     ELSE /\ sw' = [sw EXCEPT !.i = @ + 1]
                          /\ UNCHANGED <<pc, stk, tab, result, anyFail>>
    /\ SwitchFrame

SwitchToSteps(t) == ts_tabs(t) \/ ts_fallback(t) \/ ts_pick(t) \/ ts_scan(t)

\* ------------------------------------------- a tool function (tools/*.py)
\* Every tool function but switch_to_tab has this shape (navigate is the first):
\*   try: if not ensure_browser(): return failure
\*        tab = get_current_tab(); if tab is None: return failure
\*        ... calls on tab ...; return {"success": ...}
\*   except Exception: return failure
StartTool(t) == BeginIn(t, "tool", "none", "eb_check", <<"tl_ensured", "done">>)

\* if not browser_manager.ensure_browser(): return {"success": False, ...}
\* tab = browser_manager.get_current_tab()
tl_ensured(t) ==
    /\ pc[t] = "tl_ensured"
    /\ IF result[t].success
          THEN Call(t, "gc_check", "tl_tab") /\ UNCHANGED result
          ELSE ToolFail(t)
    /\ UNCHANGED <<session, calls, op, arg, tab, brw, sawGone, stale, anyFail>>

\* if tab is None: return {"success": False, ...}
tl_tab(t) ==
    /\ pc[t] = "tl_tab"
    /\ IF tab[t] = NoTab
          THEN ToolFail(t)
          ELSE Goto(t, "tl_act") /\ UNCHANGED <<stk, result>>
    /\ UNCHANGED <<session, calls, op, arg, tab, brw, sawGone, stale, anyFail>>

\* the calls on tab: they return and the tool reports success or a failure of its
\* own (element not found, unsupported argument), or one of them raises
tl_act(t) ==
    /\ pc[t] = "tl_act"
    /\ \E ok \in BOOLEAN, found \in BOOLEAN :
         /\ result' = [result EXCEPT ![t] =
                         IF ok /\ found /\ TabLive(tab[t]) THEN ToolOk ELSE ToolFailed]
         /\ anyFail' = (anyFail \/ (~ok /\ TabLive(tab[t])))
    /\ Return(t)
    /\ UNCHANGED <<session, calls, op, arg, tab, brw, sawGone, stale>>

\* ------------------------------------------- server.call_tool
ToolNames ==
    {"init_browser", "get_browser_status", "close_browser", "navigate", "find_elements",
     "click_element", "input_text", "get_element_text", "get_element_attribute",
     "wait_for_element", "scroll_page", "take_screenshot", "execute_javascript",
     "page_to_markdown", "get_page_content", "extract_table_data", "smart_extract",
     "fill_form", "handle_infinite_scroll", "manage_cookies", "switch_to_tab"}

\* the keys call_tool reads as arguments["key"]
RequiredArgs(name) ==
    CASE name \in {"navigate"} -> {"url"}
      [] name \in {"find_elements", "click_element", "get_element_text",
                   "wait_for_element"} -> {"selector"}
      [] name = "input_text" -> {"selector", "text"}
      [] name = "get_element_attribute" -> {"selector", "attribute"}
      [] name = "execute_javascript" -> {"script"}
      [] name = "page_to_markdown" -> {"file_path"}
      [] name = "smart_extract" -> {"selector", "fields"}
      [] name = "fill_form" -> {"fields"}
      [] name \in {"manage_cookies", "switch_to_tab"} -> {"action"}
      [] OTHER -> {}

\* the branches of call_tool that read arguments at all
ReadsArguments(name) == name \in ToolNames \ {"get_browser_status", "close_browser"}

\* an argument map: None, or a mapping with these of the required keys
ArgMaps(name) ==
    {[null |-> TRUE, keys |-> {}]} \cup
    {[null |-> FALSE, keys |-> k] : k \in SUBSET RequiredArgs(name)}

\* evaluating the arguments of the branch raises (AttributeError on None, KeyError)
ArgsRaise(name, a) ==
    ReadsArguments(name) /\ (a.null \/ ~(RequiredArgs(name) \subseteq a.keys))

\* where the code of the branch starts, and the operation it runs
Entry(name) ==
    CASE name = "init_browser" -> "ib_lock"
      [] name = "get_browser_status" -> "gs_check"
      [] name = "close_browser" -> "cb_lock"
      [] name \in ToolNames -> "eb_check"
      [] OTHER -> "ct_unknown"

Frames(name, action) ==
    CASE name \in {"init_browser", "get_browser_status", "close_browser"} -> <<"ct_dumps">>
      [] name = "switch_to_tab" -> <<"tb_ensured", "ct_dumps">>
      [] name \in ToolNames -> <<"tl_ensured", "ct_dumps">>
      [] OTHER -> <<>>

\* call_tool(name, arguments): the branch of name is entered, or evaluating its
\* arguments raises into the except branch
CallTool(t, name, a, o, action) ==
    /\ action \in (IF name = "switch_to_tab" THEN {"tab_new", "tab_close"} ELSE {name})
    /\ o \in (IF name = "init_browser" THEN {"default", "custom"} ELSE {"none"})
    /\ IF ArgsRaise(name, a)
          THEN BeginIn(t, action, o, "ct_except", <<>>)
          ELSE BeginIn(t, action, o, Entry(name), Frames(name, action) \o <<"done">>)

\* else: result = {"success": False, "error": f"unknown tool: {name}"}
ct_unknown(t) ==
    /\ pc[t] = "ct_unknown"
    /\ result' = [result EXCEPT ![t] = UnknownTool]
    /\ Goto(t, "ct_dumps")
    /\ UNCHANGED <<session, calls, stk, op, arg, tab, brw, sawGone, stale, anyFail>>

\* result_text = json.dumps(result, ...); return [TextContent(...)]
\* a value the library handed to a tool may not be serializable: TypeError
ct_dumps(t) ==
    /\ pc[t] = "ct_dumps"
    /\ \E ok \in BOOLEAN :
         IF ok \/ result[t].kind # "tool_ok"
            THEN Goto(t, "done") /\ UNCHANGED result
            ELSE Goto(t, "ct_except") /\ UNCHANGED result
    /\ UNCHANGED <<session, calls, stk, op, arg, tab, brw, sawGone, stale, anyFail>>

\* except Exception as e: return [TextContent(text=json.dumps({"success": False, "error": str(e)}))]
ct_except(t) ==
    /\ pc[t] = "ct_except"
    /\ result' = [result EXCEPT ![t] = CallError]
    /\ Goto(t, "done")
    /\ UNCHANGED <<session, calls, stk, op, arg, tab, brw, sawGone, stale, anyFail>>

\* ------------------------------------------------------------ the environment
\* a page closes its own tab (window.close(), or the user closes it); the browser
\* keeps at least one tab
PageClosesTab ==
    /\ \E b \in procs : \E i \in 1..Len(tabs[b]) :
         /\ Len(tabs[b]) >= 2
         /\ tabs' = [tabs EXCEPT ![b] = Without(@, tabs[b][i])]
    /\ UNCHANGED <<browser, current_tab, lock, procs, opened, launched, opts, calls,
                   pc, stk, op, arg, locals, anyFail, toolcalls>>

\* ------------------------------------------------------------ specifications
InitSteps(t) == ib_lock(t) \/ ib_check(t) \/ ib_launch(t) \/ ib_tab(t) \/ ib_return(t)
StatusSteps(t) == gs_check(t) \/ gs_tab(t) \/ gs_count(t) \/ gs_url(t)
TabReadSteps(t) == gc_check(t) \/ gc_cur(t) \/ gc_ret(t)
TabResolveSteps(t) == gc_latest(t) \/ gc_write(t)
CloseSteps(t) == cb_lock(t) \/ cb_check(t) \/ cb_quit(t) \/ cb_clear_b(t) \/ cb_clear_t(t)
EnsureSteps(t) == eb_check(t) \/ eb_ret(t)
SwitchSteps(t) ==
    \/ tb_ensured(t) \/ tb_browser(t) \/ tn_new(t) \/ set_current_tab(t) \/ tn_url(t)
    \/ tc_got(t) \/ tc_close(t) \/ tc_latest(t)

ToolSteps(t) == tl_ensured(t) \/ tl_tab(t) \/ tl_act(t)
CallSteps(t) == ct_unknown(t) \/ ct_dumps(t) \/ ct_except(t)

\* threads call init_browser, close_browser, ensure_browser, get_status,
\* switch_to_tab (new, close) and the other tools in any interleaving
Next ==
    \/ \E t \in Threads :
         \/ StartInit(t) \/ StartClose(t) \/ StartEnsure(t) \/ StartStatus(t)
         \/ StartTabNew(t) \/ StartTabClose(t) \/ StartTool(t)
         \/ InitSteps(t) \/ StatusSteps(t) \/ TabReadSteps(t) \/ TabResolveSteps(t)
         \/ CloseSteps(t) \/ EnsureSteps(t) \/ SwitchSteps(t) \/ ToolSteps(t)
    \/ PageClosesTab

Spec == Init /\ [][Next]_vars

\* only init_browser is called, by several threads, starting with no session
NextInit ==
    \E t \in Threads :
       \/ StartInit(t)
       \/ InitSteps(t) \/ StatusSteps(t) \/ TabReadSteps(t) \/ TabResolveSteps(t)

SpecInit == Init /\ [][NextInit]_vars

\* the session's life cycle: threads call init_browser, close_browser and
\* get_status in any interleaving
NextClose ==
    \E t \in Threads :
       \/ StartInit(t) \/ StartClose(t) \/ StartStatus(t)
       \/ InitSteps(t) \/ CloseSteps(t) \/ StatusSteps(t) \/ TabReadSteps(t)
       \/ TabResolveSteps(t)

SpecClose == Init /\ [][NextClose]_vars

\* only ensure_browser is called, by several threads, starting with no session
NextEnsure ==
    \E t \in Threads :
       \/ StartEnsure(t)
       \/ EnsureSteps(t) \/ InitSteps(t) \/ StatusSteps(t) \/ TabReadSteps(t)
       \/ TabResolveSteps(t)

SpecEnsure == Init /\ [][NextEnsure]_vars

\* a session that no one closes: threads call init_browser, get_status and
\* switch_to_tab (new, close) in any interleaving, and pages close their tabs
NextOpen ==
    \/ \E t \in Threads :
         \/ StartInit(t) \/ StartStatus(t) \/ StartTabNew(t) \/ StartTabClose(t)
         \/ InitSteps(t) \/ StatusSteps(t) \/ TabReadSteps(t) \/ TabResolveSteps(t)
         \/ EnsureSteps(t) \/ SwitchSteps(t)
    \/ PageClosesTab

SpecOpen == Init /\ [][NextOpen]_vars

\* the server's event loop runs call_tool, one call after the other
LoopThread == CHOOSE t \in Threads : \A u \in Threads : t <= u

NextCall ==
    \/ \E name \in ToolNames \cup {"no_such_tool"} :
         \E a \in ArgMaps(name), o \in {"default", "custom", "none"},
            action \in {name, "tab_new", "tab_close"} :
               CallTool(LoopThread, name, a, o, action)
    \/ CallSteps(LoopThread)
    \/ InitSteps(LoopThread) \/ StatusSteps(LoopThread) \/ TabReadSteps(LoopThread)
    \/ TabResolveSteps(LoopThread) \/ CloseSteps(LoopThread) \/ EnsureSteps(LoopThread)
    \/ SwitchSteps(LoopThread) \/ ToolSteps(LoopThread)
    \/ PageClosesTab

SpecCall == Init /\ [][NextCall]_vars

\* the server's event loop runs switch_to_tab (new, switch), one call after the
\* other, and pages close their tabs
NextSwitch ==
    \/ StartTabNew(LoopThread) \/ StartTabSwitch(LoopThread)
    \/ InitSteps(LoopThread) \/ StatusSteps(LoopThread) \/ TabReadSteps(LoopThread)
    \/ TabResolveSteps(LoopThread) \/ EnsureSteps(LoopThread)
    \/ tb_ensured(LoopThread) \/ tb_browser(LoopThread) \/ tn_new(LoopThread)
    \/ set_current_tab(LoopThread) \/ tn_url(LoopThread)
    \/ SwitchToSteps(LoopThread)
    \/ PageClosesTab

SpecSwitch == Init /\ [][NextSwitch]_vars

\* ------------------------------------------- tools.advanced.handle_infinite_scroll
\* One call, on its own: the library answers each measurement with any value.
\* hs.last is last_count (check_selector given) or last_height; hs.scrolls counts
\* the tab.scroll.to_bottom() calls that returned, hs.prev is the measurement
\* before this one (-1: there is none yet), hs.equal records that a measurement
\* equalled the one before it, hs.late that a scroll was issued after that,
\* hs.first is the first measurement (-1: none yet) and hs.stop tells how the loop
\* was left: "converged" by the break, "exhausted" when range(max_scrolls) ran out.
sessionvars == <<session, calls, pc, stk, op, arg, locals, anyFail>>

\* the comparison as it would be if the loop stopped only when the page shrank
ConvergedShrunk(current, last) == current < last

\* current_count == last_count / current_height == last_height
Converged(current, last) == current = last

\* if not ensure_browser(): return failure; tab = get_current_tab(); if tab is None: ...
\* scroll_count = 0; last_height = 0; last_count = 0
hs_begin ==
    /\ hs.pc = "begin"
    /\ \E ok \in BOOLEAN : hs' = [hs EXCEPT !.pc = IF ok THEN "loop" ELSE "failed"]
    /\ UNCHANGED <<sessionvars, sw, se, ff, et, md>>

\* the loop head as it would be if it ran for i in range(max_scrolls + 1)
hs_loop_inclusive ==
    /\ hs.pc = "loop"
    /\ hs' = IF hs.i <= hs.max_scrolls
                THEN [hs EXCEPT !.pc = "scroll", !.i = @ + 1]
                ELSE [hs EXCEPT !.pc = "returned", !.success = TRUE, !.stop = "exhausted",
                                !.reported = hs.scroll_count, !.final = hs.last]
    /\ UNCHANGED <<sessionvars, sw, se, ff, et, md>>

\* for i in range(max_scrolls): ... return {"success": True, "scroll_count": ...}
hs_loop ==
    /\ hs.pc = "loop"
    /\ hs' = IF hs.i < hs.max_scrolls
                THEN [hs EXCEPT !.pc = "scroll", !.i = @ + 1]
                ELSE [hs EXCEPT !.pc = "returned", !.success = TRUE, !.stop = "exhausted",
                                !.reported = hs.scroll_count, !.final = hs.last]
    /\ UNCHANGED <<sessionvars, sw, se, ff, et, md>>

\* tab.scroll.to_bottom(); scroll_count += 1; time.sleep(scroll_pause)
hs_scroll ==
    /\ hs.pc = "scroll"
    /\ \E ok \in BOOLEAN :
         hs' = IF ok
                  THEN [hs EXCEPT !.pc = "measure", !.scroll_count = @ + 1,
                                  !.scrolls = @ + 1, !.late = @ \/ hs.equal]
                  ELSE [hs EXCEPT !.pc = "failed"]
    /\ UNCHANGED <<sessionvars, sw, se, ff, et, md>>

\* current = len(tab.eles(check_selector)) or tab.run_js('return document.body.scrollHeight')
\* if current == last: break; last = current
hs_measure ==
    /\ hs.pc = "measure"
    /\ \E ok \in BOOLEAN, m \in 0..MaxMeasure :
         hs' = IF ~ok
                  THEN [hs EXCEPT !.pc = "failed"]
                  ELSE IF Converged(m, hs.last)
                          THEN [hs EXCEPT !.pc = "returned", !.success = TRUE,
                                          !.stop = "converged",
                                          !.reported = hs.scroll_count, !.final = hs.last,
                                          !.prev = m,
                                          !.first = IF @ = -1 THEN m ELSE @,
                                          !.equal = @ \/ (hs.prev # -1 /\ m = hs.prev)]
                          ELSE [hs EXCEPT !.pc = "loop", !.last = m, !.prev = m,
                                          !.first = IF @ = -1 THEN m ELSE @,
                                          !.equal = @ \/ (hs.prev # -1 /\ m = hs.prev)]
    /\ UNCHANGED <<sessionvars, sw, se, ff, et, md>>

InitScroll ==
    /\ InitSession
    /\ \E m \in 0..MaxScrolls, sel \in BOOLEAN : hs = ScrollCall(m, sel)
    /\ NoToolCalls

NextScroll == hs_begin \/ hs_loop \/ hs_scroll \/ hs_measure

SpecScroll == InitScroll /\ [][NextScroll]_vars

\* the call is one synchronous sequence of statements and every library call in
\* it returns or raises (each wait has a timeout), so the call keeps stepping
SpecScrollFair == SpecScroll /\ WF_vars(NextScroll)

\* ---------------------------------------------------- tools.advanced.smart_extract
\* One call, on its own.  The page is what the library answers: how many elements
\* match the container selector, and for each container and field what the
\* sub-selector finds.  se.dead is the set of fields whose sub-selector matches
\* nothing in any container; se.missed and se.raised record that a lookup found
\* nothing and that a lookup raised.
\* len(containers[:limit]) for a list of n containers
SliceLen(n, limit) ==
    IF limit >= 0 THEN (IF n < limit THEN n ELSE limit)
                  ELSE (IF n + limit > 0 THEN n + limit ELSE 0)

\* smart_extract before it is called with fields 1..nf and limit
ExtractCall(nf, limit, dead) ==
    [pc |-> "begin", nf |-> nf, limit |-> limit, dead |-> dead,
     found |-> 0, n |-> 0, c |-> 1, f |-> 1, item |-> <<>>, results |-> <<>>,
     missed |-> FALSE, raised |-> FALSE,
     success |-> FALSE, count |-> 0]

\* what container.ele(field_selector) and the reads of the element can do:
\* find nothing, raise, or find an img, an a or another element
Lookups(s, f) ==
    IF f \in s.dead THEN {"none", "raise"}
                    ELSE {"none", "raise", "img", "a", "text"}

\* item[field_name] for an element that was found: its src attribute, a dict of
\* its text and href, or its stripped text
FieldValue(o) == IF o = "img" THEN "src" ELSE IF o = "a" THEN "link" ELSE "text"

\* the inner except branch as it would be if it gave the call up
FieldExceptAborts(s) == [s EXCEPT !.pc = "failed", !.raised = TRUE]

\* except Exception: item[field_name] = None
FieldExcept(s) ==
    [s EXCEPT !.item = Append(@, "null"), !.f = @ + 1, !.raised = TRUE]

\* else: item[field_name] = None
FieldNone(s) ==
    [s EXCEPT !.item = Append(@, "null"), !.f = @ + 1, !.missed = TRUE]

\* if not ensure_browser(): return failure; tab = get_current_tab(); if tab is None: ...
se_begin ==
    /\ se.pc = "begin"
    /\ \E ok \in BOOLEAN : se' = [se EXCEPT !.pc = IF ok THEN "find" ELSE "failed"]
    /\ UNCHANGED <<sessionvars, sw, hs, ff, et, md>>

\* containers = tab.eles(selector); if not containers: return failure
\* containers = containers[:limit]; results = []
se_find ==
    /\ se.pc = "find"
    /\ \E ok \in BOOLEAN, k \in 0..MaxContainers :
         se' = IF ~ok \/ k = 0
                  THEN [se EXCEPT !.pc = "failed"]
                  ELSE [se EXCEPT !.pc = "item", !.found = k,
                                  !.n = SliceLen(k, se.limit), !.c = 1]
    /\ UNCHANGED <<sessionvars, sw, hs, ff, et, md>>

\* for container in containers: item = {} ... return {"success": True, "count": ...}
se_item ==
    /\ se.pc = "item"
    /\ se' = IF se.c <= se.n
                THEN [se EXCEPT !.pc = "field", !.f = 1, !.item = <<>>]
                ELSE [se EXCEPT !.pc = "returned", !.success = TRUE,
                                !.count = Len(se.results)]
    /\ UNCHANGED <<sessionvars, sw, hs, ff, et, md>>

\* for field_name, field_selector in fields.items(): try: ... ; results.append(item)
se_field ==
    /\ se.pc = "field"
    /\ IF se.f <= se.nf
          THEN \E o \in Lookups(se, se.f) :
                  se' = IF o = "raise" THEN FieldExcept(se)
                        ELSE IF o = "none" THEN FieldNone(se)
                        ELSE [se EXCEPT !.item = Append(@, FieldValue(o)), !.f = @ + 1]
          ELSE se' = [se EXCEPT !.results = Append(@, se.item), !.c = @ + 1,
                                !.pc = "item"]
    /\ UNCHANGED <<sessionvars, sw, hs, ff, et, md>>

InitExtract ==
    /\ InitSession
    /\ hs = ScrollCall(0, FALSE)
    /\ \E nf \in 0..MaxFields, limit \in 0..MaxLimit :
          \E dead \in SUBSET (1..nf) : se = ExtractCall(nf, limit, dead)
    /\ ff = NoCall /\ et = NoCall /\ md = NoCall

NextExtract == se_begin \/ se_find \/ se_item \/ se_field

SpecExtract == InitExtract /\ [][NextExtract]_vars

\* -------------------------------------------------------- tools.advanced.fill_form
\* One call, on its own.  The selectors of the mapping are 1..nf in the order of
\* fields.items(), ff.vals[f] is the truthiness of the value of selector f.  The
\* page is what the library answers.  ff.outs records per selector what the
\* library did (the element was not found, a call raised, or the element was
\* found and every call on it returned), ff.log the library calls made that act
\* on the page or find an element, in order.  ff.form is the page's form: per
\* selector the element it addresses (the selectors address different elements),
\* a checkbox or a radio button with its checked state, or another element;
\* ff.form0 is the form as the first call found it.  The same call may be made a
\* second time on the form as the first left it: ff.run counts the calls and
\* ff.first keeps what the first did.
ElementKinds == {"check", "input", "textarea", "select", "other"}

FormElement(kind, checked) == [kind |-> kind, checked |-> checked]

FormElements ==
    {FormElement(kind, checked) : kind \in {"checkbox", "radio"}, checked \in BOOLEAN}
        \cup {FormElement("other", FALSE)}

\* what a click does to an element: it toggles a checkbox and checks a radio button
Click(e) ==
    IF e.kind = "checkbox" THEN [e EXCEPT !.checked = ~@]
    ELSE IF e.kind = "radio" THEN [e EXCEPT !.checked = TRUE]
    ELSE e

Event(e, f) == [ev |-> e, sel |-> f]
Failure(k, f) == [kind |-> k, sel |-> f]

\* fill_form before it is called with selectors 1..nf and a submit_selector or none
FillCall(nf, vals, submit, form) ==
    [pc |-> "begin", nf |-> nf, vals |-> vals, submit_selector |-> submit,
     i |-> 0, filled_fields |-> <<>>, errors |-> <<>>, submitted |-> FALSE,
     outs |-> <<>>, log |-> <<>>, success |-> FALSE,
     form |-> form, form0 |-> form, run |-> 1, first |-> [outs |-> <<>>, clicked |-> {}]]

\* the loop head as it would be if the loop were left after the first field
FieldsLeftFirstOnly(s) == s.i <= 1 /\ s.i <= s.nf

\* for selector, value in fields.items(): a selector is left to process
FieldsLeft(s) == s.i <= s.nf

\* the except branch of a field as it would be if it ended the loop
FillExceptStops(s, evs) ==
    [s EXCEPT !.errors = Append(@, Failure("raised", s.i)), !.i = s.nf + 1,
              !.outs = Append(@, "raised"), !.log = @ \o evs, !.pc = "loop"]

\* except Exception as e: errors.append(f"{selector}: {str(e)}")
FillExcept(s, evs) ==
    [s EXCEPT !.errors = Append(@, Failure("raised", s.i)), !.i = @ + 1,
              !.outs = Append(@, "raised"), !.log = @ \o evs, !.pc = "loop"]

\* if not element: errors.append(f"未找到元素: {selector}"); continue
FillNotFound(s, evs) ==
    [s EXCEPT !.errors = Append(@, Failure("not_found", s.i)), !.i = @ + 1,
              !.outs = Append(@, "not_found"), !.log = @ \o evs, !.pc = "loop"]

\* filled_fields.append(selector)
FillDone(s, evs) ==
    [s EXCEPT !.filled_fields = Append(@, s.i), !.i = @ + 1,
              !.outs = Append(@, "ok"), !.log = @ \o evs, !.pc = "loop"]

\* the test as it would be if a truthy value always clicked
NeedsClickWhenTruthy(value, is_checked) == value

\* a checkbox or radio is clicked when its state differs from the value's truth
NeedsClick(value, is_checked) == value # is_checked

\* the selectors whose checkbox or radio button the library calls of log clicked
Clicks(log) == {log[p].sel : p \in {q \in DOMAIN log : log[q].ev = "toggle"}}

\* the form after the library calls evs were made on the element of selector f
Clicked(form, f, evs) ==
    IF \E p \in DOMAIN evs : evs[p].ev = "toggle"
       THEN [form EXCEPT ![f] = Click(@)]
       ELSE form

\* the library calls that write the value into an element of kind k
WriteEvents(s, k, is_checked) ==
    IF k = "check"
       THEN (IF NeedsClick(s.vals[s.i], is_checked) THEN <<Event("toggle", s.i)>>
                                                    ELSE <<>>)
       ELSE IF k = "select" THEN <<Event("select", s.i)>>
       ELSE <<Event("clear", s.i), Event("input", s.i)>>

\* if not ensure_browser(): return failure; tab = get_current_tab(); if tab is None: ...
\* filled_fields = []; errors = []
ff_begin ==
    /\ ff.pc = "begin"
    /\ \E ok \in BOOLEAN :
         ff' = IF ok THEN [ff EXCEPT !.pc = "loop", !.i = 1]
                     ELSE [ff EXCEPT !.pc = "failed"]
    /\ UNCHANGED <<sessionvars, sw, hs, se, et, md>>

\* for selector, value in fields.items(): ...; submitted = False; if submit_selector:
ff_loop ==
    /\ ff.pc = "loop"
    /\ ff' = IF FieldsLeft(ff) THEN [ff EXCEPT !.pc = "field"]
             ELSE IF ff.submit_selector THEN [ff EXCEPT !.pc = "submit"]
             ELSE [ff EXCEPT !.pc = "return"]
    /\ UNCHANGED <<sessionvars, sw, hs, se, et, md>>

\* try: element = tab.ele(selector); ... filled_fields.append(selector)
\* except Exception: errors.append(...)
\* found: tab.ele returned an element, raised or a falsy value; k: the element's
\* kind; wrote: every call on the element returned; j: how many of the writing
\* calls returned before one raised
ff_field ==
    /\ ff.pc = "field"
    /\ \E found \in {"element", "none", "raise"}, k \in ElementKinds, wrote \in BOOLEAN :
         LET look == <<Event("ele", ff.i)>>
             is_checked == ff.form[ff.i].checked
             w == WriteEvents(ff, k, is_checked)
         IN  /\ (k = "check") = (ff.form[ff.i].kind \in {"checkbox", "radio"})
             /\ IF found = "raise" THEN ff' = FillExcept(ff, look)
                ELSE IF found = "none" THEN ff' = FillNotFound(ff, look)
                ELSE IF wrote
                   THEN ff' = [FillDone(ff, look \o w) EXCEPT !.form = Clicked(@, ff.i, w)]
                ELSE \E j \in 0..Len(w) :
                        ff' = [FillExcept(ff, look \o SubSeq(w, 1, j))
                                  EXCEPT !.form = Clicked(@, ff.i, SubSeq(w, 1, j))]
    /\ UNCHANGED <<sessionvars, sw, hs, se, et, md>>

\* try: submit_btn = tab.ele(submit_selector); if submit_btn: submit_btn.click();
\* time.sleep(wait_after_submit); submitted = True; else: errors.append(...)
\* except Exception: errors.append(...)
ff_submit ==
    /\ ff.pc = "submit"
    /\ \E found \in {"element", "none", "raise"}, clicked \in BOOLEAN :
         LET look == <<Event("ele_submit", 0)>>
         IN  ff' = IF found = "raise"
                      THEN [ff EXCEPT !.errors = Append(@, Failure("submit_failed", 0)),
                                      !.log = @ \o look, !.pc = "return"]
                   ELSE IF found = "none"
                      THEN [ff EXCEPT !.errors = Append(@, Failure("no_submit", 0)),
                                      !.log = @ \o look, !.pc = "return"]
                   ELSE IF clicked
                      THEN [ff EXCEPT !.submitted = TRUE, !.pc = "return",
                                      !.log = @ \o look \o
                                              <<Event("click", 0), Event("sleep", 0)>>]
                   ELSE [ff EXCEPT !.errors = Append(@, Failure("submit_failed", 0)),
                                   !.log = @ \o look, !.pc = "return"]
    /\ UNCHANGED <<sessionvars, sw, hs, se, et, md>>

\* return {"success": len(errors) == 0, "filled_fields": ..., "submitted": ..., "errors": ...}
ff_return ==
    /\ ff.pc = "return"
    /\ ff' = [ff EXCEPT !.pc = "returned", !.success = (Len(ff.errors) = 0)]
    /\ UNCHANGED <<sessionvars, sw, hs, se, et, md>>

\* the same fill_form call is made once more after it succeeded, on the form as the
\* first call left it (a submitted form is gone with its page)
ff_again ==
    /\ ff.pc = "returned" /\ ff.run = 1 /\ ff.success /\ ~ff.submitted
    /\ ff' = [FillCall(ff.nf, ff.vals, ff.submit_selector, ff.form)
                 EXCEPT !.form0 = ff.form0, !.run = 2,
                        !.first = [outs |-> ff.outs, clicked |-> Clicks(ff.log)]]
    /\ UNCHANGED <<sessionvars, sw, hs, se, et, md>>

InitFill ==
    /\ InitSession
    /\ hs = ScrollCall(0, FALSE)
    /\ \E nf \in 0..MaxFields, submit \in BOOLEAN :
          \E vals \in [1..nf -> BOOLEAN], form \in [1..nf -> FormElements] :
             ff = FillCall(nf, vals, submit, form)
    /\ se = NoCall /\ et = NoCall /\ md = NoCall

NextFill == ff_begin \/ ff_loop \/ ff_field \/ ff_submit \/ ff_return

SpecFill == InitFill /\ [][NextFill]_vars

\* a form of checkboxes and radio buttons is filled, and filled again
InitRefill ==
    /\ InitSession
    /\ hs = ScrollCall(0, FALSE)
    /\ \E nf \in 0..MaxFields, submit \in BOOLEAN :
          \E vals \in [1..nf -> BOOLEAN],
             form \in [1..nf -> {e \in FormElements : e.kind # "other"}] :
                ff = FillCall(nf, vals, submit, form)
    /\ se = NoCall /\ et = NoCall /\ md = NoCall

NextRefill == NextFill \/ ff_again

SpecRefill == InitRefill /\ [][NextRefill]_vars

\* ----------------------------------------------- tools.advanced.extract_table_data
\* One call, on its own.  The table is what the library finds in the page: an
\* optional thead and an optional tbody, each with its rows, and the rows outside
\* both (tr elements directly in the table or in a tfoot), in this document order.
\* A row is its th cells and its td cells, each in document order; a cell is its
\* text, a sequence of characters.  et.table is that table, et.headers and et.rows
\* are the locals headers and rows, et.data and et.row_count the returned data.
Texts == {<<"A">>, <<" ", "B">>}

SeqsUpTo(S, n) == UNION {[1..k -> S] : k \in 0..n}

\* the rows of at most MaxCells cells
Rows ==
    UNION {{[th |-> a, td |-> b] : a \in SeqsUpTo(Texts, k), b \in SeqsUpTo(Texts, MaxCells - k)}
           : k \in 0..MaxCells}

Section(present, rows) == [present |-> present, rows |-> rows]

\* str.strip(): the text without its leading and trailing blanks
RECURSIVE LStrip(_)
LStrip(t) == IF t # <<>> /\ Head(t) = " " THEN LStrip(Tail(t)) ELSE t

RECURSIVE RStrip(_)
RStrip(t) ==
    IF t # <<>> /\ t[Len(t)] = " " THEN RStrip(SubSeq(t, 1, Len(t) - 1)) ELSE t

Strip(t) == RStrip(LStrip(t))

\* [cell.text.strip() for cell in cells]
StripAll(cells) == [x \in DOMAIN cells |-> Strip(cells[x])]

\* the concatenation of the sequences of a sequence
RECURSIVE Flatten(_)
Flatten(qs) == IF qs = <<>> THEN <<>> ELSE Head(qs) \o Flatten(Tail(qs))

\* table.eles('tag:tr'): every row of the table, in document order
AllRows(t) == t.thead.rows \o t.tbody.rows \o t.rest

\* thead.eles('tag:th') or, when there is none, thead.eles('tag:td')
TheadCells(t) ==
    LET ths == Flatten([x \in DOMAIN t.thead.rows |-> t.thead.rows[x].th])
        tds == Flatten([x \in DOMAIN t.thead.rows |-> t.thead.rows[x].td])
    IN  IF ths # <<>> THEN ths ELSE tds

\* first_row.eles('tag:th') or, when there is none, first_row.eles('tag:td')
HeaderCells(row) == IF row.th # <<>> THEN row.th ELSE row.td

\* headers: from the thead, or when that gives none from the table's first row
Headers(t) ==
    LET h == IF t.thead.present THEN StripAll(TheadCells(t)) ELSE <<>>
    IN  IF h # <<>> THEN h
        ELSE IF AllRows(t) # <<>> THEN StripAll(HeaderCells(AllRows(t)[1]))
        ELSE <<>>

\* tr_list: the rows of the tbody, or every row of the table, without the first
\* one when headers were found and include_header is set
TrList(t, headers, include_header) ==
    IF t.tbody.present THEN t.tbody.rows
    ELSE IF headers # <<>> /\ include_header /\ AllRows(t) # <<>>
            THEN Tail(AllRows(t))
            ELSE AllRows(t)

\* tr.eles('tag:td') or, when there is none, tr.eles('tag:th'); stripped
RowData(row) == StripAll(IF row.td # <<>> THEN row.td ELSE row.th)

\* rows: the row_data of every row of tr_list that has cells
DataRows(tr_list) ==
    LET data == [x \in DOMAIN tr_list |-> RowData(tr_list[x])]
    IN  SelectSeq(data, LAMBDA r : r # <<>>)

\* d[key] = value on a dict kept as its (key, value) pairs in insertion order
DictSet(d, key, value) ==
    IF \E x \in DOMAIN d : d[x].key = key
       THEN [x \in DOMAIN d |-> IF d[x].key = key THEN [key |-> key, value |-> value]
                                                   ELSE d[x]]
       ELSE Append(d, [key |-> key, value |-> value])

\* dict(zip(headers, row)), built on d
RECURSIVE ZipInto(_, _, _)
ZipInto(d, headers, row) ==
    IF headers = <<>> \/ row = <<>> THEN d
    ELSE ZipInto(DictSet(d, Head(headers), Head(row)), Tail(headers), Tail(row))

ZipDict(headers, row) == ZipInto(<<>>, headers, row)

\* the keys of a dict, in its order
Keys(d) == [x \in DOMAIN d |-> d[x].key]

\* "rows" of the json result: dicts keyed by header, or the lists when no header
JsonData(headers, rows) ==
    IF headers # <<>> THEN [x \in DOMAIN rows |-> ZipDict(headers, rows[x])]
                      ELSE rows

\* a table of the page: its rows in document order, cut into thead, tbody and rest
Cuts(n) == {c \in (0..n) \X (0..n) : c[1] <= c[2]}

Table(all, c, ht, hb) ==
    [thead |-> Section(ht, SubSeq(all, 1, c[1])),
     tbody |-> Section(hb, SubSeq(all, c[1] + 1, c[2])),
     rest |-> SubSeq(all, c[2] + 1, Len(all))]

NoTable == [thead |-> Section(FALSE, <<>>), tbody |-> Section(FALSE, <<>>), rest |-> <<>>]

\* a table as the page can hold it: rows lie in a section only if it is present
WellFormed(t) ==
    /\ t.thead.rows # <<>> => t.thead.present
    /\ t.tbody.rows # <<>> => t.tbody.present

\* extract_table_data before it is called with include_header
TableCall(include_header) ==
    [pc |-> "begin", include_header |-> include_header, table |-> NoTable,
     headers |-> <<>>, rows |-> <<>>, format |-> "none",
     data |-> <<>>, row_count |-> 0, success |-> FALSE]

\* if not ensure_browser(): ...; tab = get_current_tab(); table = tab.ele(selector)
\* if not table: return failure
et_begin ==
    /\ et.pc = "begin"
    /\ \E ok \in BOOLEAN, n \in 0..MaxRows :
         \E all \in [1..n -> Rows], c \in Cuts(n), ht \in BOOLEAN, hb \in BOOLEAN :
            LET t == Table(all, c, ht, hb)
            IN  /\ WellFormed(t)
                /\ et' = IF ok THEN [et EXCEPT !.pc = "read", !.table = t]
                               ELSE [et EXCEPT !.pc = "failed"]
    /\ UNCHANGED <<sessionvars, sw, hs, se, ff, md>>

\* headers = ...; rows = ...   (a library call that raises ends the call in the
\* except branch)
et_read ==
    /\ et.pc = "read"
    /\ \E ok \in BOOLEAN :
         et' = IF ~ok THEN [et EXCEPT !.pc = "failed"]
               ELSE LET headers == Headers(et.table)
                    IN  [et EXCEPT !.pc = "format", !.headers = headers,
                                   !.rows = DataRows(TrList(et.table, headers,
                                                            et.include_header))]
    /\ UNCHANGED <<sessionvars, sw, hs, se, ff, md>>

\* if format == "json": ... elif format == "csv": ... else: return failure
\* (writing the output file may raise)
et_format ==
    /\ et.pc = "format"
    /\ \E format \in {"json", "csv", "other"}, wrote \in BOOLEAN :
         et' = IF format = "other" \/ ~wrote
                  THEN [et EXCEPT !.pc = "failed", !.format = format]
               ELSE IF format = "json"
                  THEN [et EXCEPT !.pc = "returned", !.format = format, !.success = TRUE,
                                  !.data = JsonData(et.headers, et.rows),
                                  !.row_count = Len(et.rows)]
               ELSE [et EXCEPT !.pc = "returned", !.format = format, !.success = TRUE,
                               !.row_count = Len(et.rows)]
    /\ UNCHANGED <<sessionvars, sw, hs, se, ff, md>>

InitTable ==
    /\ InitSession
    /\ hs = ScrollCall(0, FALSE)
    /\ \E include_header \in BOOLEAN : et = TableCall(include_header)
    /\ se = NoCall /\ ff = NoCall /\ md = NoCall

NextTable == et_begin \/ et_read \/ et_format

SpecTable == InitTable /\ [][NextTable]_vars

\* ------------------------------------------------------- tools.markdown (documents)
\* A document is its elements in document order; an element is its tag, its class
\* and id attributes (strings, as sequences of characters; empty when absent), its
\* role attribute and the position of its parent element (0: it lies directly in
\* the body).  An html text is the elements it parses to, and whether the parsed
\* document has a body (the empty text has none).
Element(e, parent) ==
    [tag |-> e.tag, class |-> e.class, id |-> e.id, role |-> e.role, parent |-> parent]

\* position k and the positions of its ancestors
RECURSIVE AncSelf(_, _)
AncSelf(p, k) == IF k = 0 THEN {} ELSE {k} \cup AncSelf(p, p[k])

\* the parent positions of n elements listed in document order
Shapes(n) ==
    {p \in [1..n -> 0..n] :
        \A k \in 1..n : p[k] < k /\ (p[k] # 0 => p[k] \in AncSelf(p, k - 1))}

\* the document of the elements e with the parent positions p
Doc(e, p) == [x \in DOMAIN e |-> Element(e[x], p[x])]

EmptyHtml == [body |-> FALSE, nodes |-> <<>>]

\* the html text of a document, or with no elements and no body the empty text
Html(body, nodes) == [body |-> body, nodes |-> nodes]

\* BeautifulSoup(html, 'lxml'): the tree, all of its elements in place
Parse(html) == [body |-> html.body, nodes |-> html.nodes, alive |-> DOMAIN html.nodes]

\* the positions of the subtree rooted at k
Subtree(nodes, k) == {x \in DOMAIN nodes : k \in AncSelf([y \in DOMAIN nodes |-> nodes[y].parent], x)}

\* the elements at the positions keep, in document order, as a document of their own
Renumber(nodes, keep) ==
    LET new(x) == Cardinality({y \in keep : y <= x})
        old(k) == CHOOSE x \in keep : new(x) = k
    IN  [k \in 1..Cardinality(keep) |->
            LET n == nodes[old(k)]
            IN  [n EXCEPT !.parent = IF n.parent \in keep THEN new(n.parent) ELSE 0]]

\* str(soup), str(body)
Str(soup) ==
    IF soup.body THEN [body |-> TRUE, nodes |-> Renumber(soup.nodes, soup.alive)]
                 ELSE EmptyHtml

\* str(element)
StrElement(soup, k) ==
    [body |-> TRUE, nodes |-> Renumber(soup.nodes, Subtree(soup.nodes, k) \cap soup.alive)]

\* the whitespace-separated tokens of a class attribute
RECURSIVE Tokens(_, _)
Tokens(s, cur) ==
    IF s = <<>> THEN (IF cur = <<>> THEN {} ELSE {cur})
    ELSE IF Head(s) = " " THEN (IF cur = <<>> THEN {} ELSE {cur}) \cup Tokens(Tail(s), <<>>)
    ELSE Tokens(Tail(s), Append(cur, Head(s)))

\* the element n matches the selector: a tag name, .class, #id, [role="v"],
\* [class*="v"] or [id*="v"]
Matches(n, selector) ==
    IF selector.by = "tag" THEN <<n.tag>> = selector.v
    ELSE IF selector.by = "class" THEN selector.v \in Tokens(n.class, <<>>)
    ELSE IF selector.by = "id" THEN n.id = selector.v
    ELSE IF selector.by = "role" THEN <<n.role>> = selector.v
    ELSE IF selector.by = "class*" THEN Contains(n.class, selector.v)
    ELSE Contains(n.id, selector.v)

\* soup.select(selector): the positions of the matching elements, in document order
Select(soup, selector) ==
    LET hit == {x \in soup.alive : Matches(soup.nodes[x], selector)}
    IN  [k \in 1..Cardinality(hit) |->
            CHOOSE x \in hit : Cardinality({y \in hit : y <= x}) = k]

\* ------------------------------------------ tools.markdown._extract_main_content
main_selectors ==
    <<[by |-> "tag", v |-> <<"main">>],
      [by |-> "tag", v |-> <<"article">>],
      [by |-> "role", v |-> <<"main">>],
      [by |-> "class", v |-> <<"m", "a", "i", "n", "-", "c", "o", "n", "t", "e", "n", "t">>],
      [by |-> "id", v |-> <<"m", "a", "i", "n", "-", "c", "o", "n", "t", "e", "n", "t">>],
      [by |-> "class", v |-> <<"c", "o", "n", "t", "e", "n", "t">>],
      [by |-> "id", v |-> <<"c", "o", "n", "t", "e", "n", "t">>],
      [by |-> "class", v |-> <<"p", "o", "s", "t", "-", "c", "o", "n", "t", "e", "n", "t">>],
      [by |-> "class", v |-> <<"a", "r", "t", "i", "c", "l", "e", "-", "c", "o", "n", "t", "e", "n", "t">>]>>

\* the elements the documents given to _extract_main_content are built from
MainElements ==
    {[tag |-> "main", class |-> <<>>, id |-> <<>>, role |-> ""],
     [tag |-> "article", class |-> <<>>, id |-> <<>>, role |-> ""],
     [tag |-> "div", class |-> <<>>, id |-> <<>>, role |-> "main"],
     [tag |-> "div", class |-> <<"m", "a", "i", "n", "-", "c", "o", "n", "t", "e", "n", "t">>, id |-> <<>>, role |-> ""],
     [tag |-> "div", class |-> <<>>, id |-> <<"m", "a", "i", "n", "-", "c", "o", "n", "t", "e", "n", "t">>, role |-> ""],
     [tag |-> "div", class |-> <<"c", "o", "n", "t", "e", "n", "t">>, id |-> <<>>, role |-> ""],
     [tag |-> "div", class |-> <<>>, id |-> <<"c", "o", "n", "t", "e", "n", "t">>, role |-> ""],
     [tag |-> "div", class |-> <<"p", "o", "s", "t", "-", "c", "o", "n", "t", "e", "n", "t">>, id |-> <<>>, role |-> ""],
     [tag |-> "div", class |-> <<"a", "r", "t", "i", "c", "l", "e", "-", "c", "o", "n", "t", "e", "n", "t">>, id |-> <<>>, role |-> ""],
     [tag |-> "p", class |-> <<>>, id |-> <<>>, role |-> ""]}

\* the selection as it would be if it took the first element in document order
\* that matches any of the selectors
RECURSIVE MainByDocumentOrder(_, _, _)
MainByDocumentOrder(html, soup, i) ==
    LET hit == {x \in soup.alive :
                  \E j \in DOMAIN main_selectors : Matches(soup.nodes[x], main_selectors[j])}
    IN  IF hit # {}
           THEN [how |-> "selector", html |-> StrElement(soup, CHOOSE x \in hit : \A y \in hit : x <= y)]
        ELSE IF soup.body THEN [how |-> "body", html |-> Str(soup)]
        ELSE [how |-> "document", html |-> html]

\* for selector in main_selectors: main = soup.select_one(selector); if main: return str(main)
\* body = soup.find('body'); if body: return str(body); return html
RECURSIVE MainFrom(_, _, _)
MainFrom(html, soup, i) ==
    IF i <= Len(main_selectors)
       THEN LET found == Select(soup, main_selectors[i])
            IN  IF found # <<>>
                   THEN [how |-> "selector", html |-> StrElement(soup, found[1])]
                   ELSE MainFrom(html, soup, i + 1)
    ELSE IF soup.body THEN [how |-> "body", html |-> Str(soup)]
    ELSE [how |-> "document", html |-> html]

\* _extract_main_content(html)
ExtractMainContent(html) == MainFrom(html, Parse(html), 1)

\* the content pipeline before it is given the document html
ContentCall(html, remove_ads) ==
    [pc |-> "begin", html |-> html, remove_ads |-> remove_ads,
     how |-> "none", out |-> EmptyHtml, again |-> EmptyHtml]

\* html = _extract_main_content(html)
mc_extract ==
    /\ md.pc = "begin"
    /\ LET r == ExtractMainContent(md.html)
       IN  md' = [md EXCEPT !.pc = "extracted", !.how = r.how, !.out = r.html]
    /\ UNCHANGED <<sessionvars, sw, hs, se, ff, et>>

InitMain ==
    /\ InitSession
    /\ hs = ScrollCall(0, FALSE)
    /\ \E n \in 0..MaxNodes :
          \E e \in [1..n -> MainElements], p \in Shapes(n), body \in BOOLEAN :
             /\ body \/ n = 0
             /\ md = ContentCall(Html(body, Doc(e, p)), FALSE)
    /\ se = NoCall /\ ff = NoCall /\ et = NoCall

NextMain == mc_extract

SpecMain == InitMain /\ [][NextMain]_vars

\* --------------------------------------------------- tools.markdown._clean_html
\* the selectors of the for loop, in its order
clean_selectors ==
    <<[by |-> "tag", v |-> <<"script">>],
      [by |-> "tag", v |-> <<"style">>],
      [by |-> "tag", v |-> <<"iframe">>],
      [by |-> "tag", v |-> <<"noscript">>],
      [by |-> "class*", v |-> <<"a", "d", "-">>],
      [by |-> "class*", v |-> <<"a", "d", "v", "e", "r", "t", "i", "s", "e", "m", "e", "n", "t">>],
      [by |-> "id*", v |-> <<"a", "d", "-">>],
      [by |-> "id*", v |-> <<"a", "d", "v", "e", "r", "t", "i", "s", "e", "m", "e", "n", "t">>],
      [by |-> "class", v |-> <<"s", "i", "d", "e", "b", "a", "r">>],
      [by |-> "class", v |-> <<"f", "o", "o", "t", "e", "r">>],
      [by |-> "class", v |-> <<"h", "e", "a", "d", "e", "r", "-", "a", "d">>],
      [by |-> "class*", v |-> <<"s", "o", "c", "i", "a", "l", "-", "s", "h", "a", "r", "e">>],
      [by |-> "class*", v |-> <<"c", "o", "o", "k", "i", "e">>]>>

\* the elements the documents given to _clean_html are built from: every selector
\* matches one of them, and two match none
CleanElements ==
    {[tag |-> "script", class |-> <<>>, id |-> <<>>, role |-> ""],
     [tag |-> "style", class |-> <<"a", "d", "v", "e", "r", "t", "i", "s", "e", "m", "e", "n", "t">>, id |-> <<>>, role |-> ""],
     [tag |-> "iframe", class |-> <<>>, id |-> <<"a", "d", "v", "e", "r", "t", "i", "s", "e", "m", "e", "n", "t">>, role |-> ""],
     [tag |-> "noscript", class |-> <<"c", "o", "o", "k", "i", "e">>, id |-> <<>>, role |-> ""],
     [tag |-> "div", class |-> <<"a", "d", "-", "t", "o", "p">>, id |-> <<>>, role |-> ""],
     [tag |-> "div", class |-> <<>>, id |-> <<"a", "d", "-", "1">>, role |-> ""],
     [tag |-> "div", class |-> <<"s", "i", "d", "e", "b", "a", "r", " ", "f", "o", "o", "t", "e", "r">>, id |-> <<>>, role |-> ""],
     [tag |-> "div", class |-> <<"h", "e", "a", "d", "e", "r", "-", "a", "d", " ", "s", "o", "c", "i", "a", "l", "-", "s", "h", "a", "r", "e">>, id |-> <<>>, role |-> ""],
     [tag |-> "div", class |-> <<>>, id |-> <<"c", "o", "o", "k", "i", "e", "-", "b", "a", "r">>, role |-> ""],
     [tag |-> "p", class |-> <<>>, id |-> <<>>, role |-> ""]}

\* decompose() as it would be if it removed the element and left its children
DecomposeShallow(soup, k) == [soup EXCEPT !.alive = @ \ {k}]

\* element.decompose(): the element and its descendants leave the tree (on an
\* element that already left it with an ancestor, nothing is left to remove)
Decompose(soup, k) == [soup EXCEPT !.alive = @ \ Subtree(soup.nodes, k)]

\* for element in found: element.decompose()
RECURSIVE DecomposeAll(_, _)
DecomposeAll(soup, found) ==
    IF found = <<>> THEN soup
    ELSE DecomposeAll(Decompose(soup, Head(found)), Tail(found))

\* for selector in [...]: for element in soup.select(selector): element.decompose()
RECURSIVE CleanFrom(_, _)
CleanFrom(soup, i) ==
    IF i <= Len(clean_selectors)
       THEN CleanFrom(DecomposeAll(soup, Select(soup, clean_selectors[i])), i + 1)
       ELSE soup

\* _clean_html(html, remove_ads)
CleanHtml(html, remove_ads) ==
    LET soup == Parse(html)
    IN  Str(IF remove_ads THEN CleanFrom(soup, 1) ELSE soup)

\* html = _clean_html(html, remove_ads=True)
cl_clean ==
    /\ md.pc = "begin"
    /\ md' = [md EXCEPT !.pc = "cleaned", !.out = CleanHtml(md.html, md.remove_ads)]
    /\ UNCHANGED <<sessionvars, sw, hs, se, ff, et>>

\* the cleaned html given to _clean_html once more
cl_again ==
    /\ md.pc = "cleaned"
    /\ md' = [md EXCEPT !.pc = "done", !.again = CleanHtml(md.out, md.remove_ads)]
    /\ UNCHANGED <<sessionvars, sw, hs, se, ff, et>>

\* page_to_markdown and get_page_content call _clean_html with remove_ads true
InitClean ==
    /\ InitSession
    /\ hs = ScrollCall(0, FALSE)
    /\ \E n \in 0..MaxNodes :
          \E e \in [1..n -> CleanElements], p \in Shapes(n), body \in BOOLEAN :
             /\ body \/ n = 0
             /\ md = ContentCall(Html(body, Doc(e, p)), TRUE)
    /\ se = NoCall /\ ff = NoCall /\ et = NoCall

NextClean == cl_clean \/ cl_again

SpecClean == InitClean /\ [][NextClean]_vars

\* ------------------------------------------------- tools.markdown.page_to_markdown
\* A markdown text is the sequence of its characters: "\n", "a" for any other
\* character, and "!" for the markup of one image.
Metadata == <<"a", "\n", "\n", "a", "\n", "a", "\n", "\n", "a", "\n", "\n">>

\* the texts of n characters a converter writes for the text of a document
BodyTexts(n) == [1..n -> {"\n", "a"}]

\* how many newlines t begins with
RECURSIVE Newlines(_)
Newlines(t) == IF t # <<>> /\ Head(t) = "\n" THEN 1 + Newlines(Tail(t)) ELSE 0

\* the substitution as it would be if the pattern were three newlines, no more
RECURSIVE CollapseTriples(_)
CollapseTriples(t) ==
    IF t = <<>> THEN <<>>
    ELSE IF Newlines(t) >= 3 THEN <<"\n", "\n">> \o CollapseTriples(SubSeq(t, 4, Len(t)))
    ELSE <<Head(t)>> \o CollapseTriples(Tail(t))

\* re.sub(r'\n{3,}', '\n\n', t): from the left, every longest run of three or more
\* newlines is replaced by two
RECURSIVE Collapse(_)
Collapse(t) ==
    IF t = <<>> THEN <<>>
    ELSE LET r == Newlines(t)
         IN  IF r >= 3 THEN <<"\n", "\n">> \o Collapse(SubSeq(t, r + 1, Len(t)))
             ELSE <<Head(t)>> \o Collapse(Tail(t))

PlainElement(tag, class) == [tag |-> tag, class |-> class, id |-> <<>>, role |-> ""]

\* the pages page_to_markdown is called on: no html, a paragraph, an image, an image
\* in a main element beside a paragraph, an image in a sidebar beside a paragraph
PageHtmls ==
    {EmptyHtml,
     Html(TRUE, Doc(<<PlainElement("p", <<>>)>>, <<0>>)),
     Html(TRUE, Doc(<<PlainElement("img", <<>>)>>, <<0>>)),
     Html(TRUE, Doc(<<PlainElement("main", <<>>), PlainElement("img", <<>>),
                      PlainElement("p", <<>>)>>, <<0, 1, 0>>)),
     Html(TRUE, Doc(<<PlainElement("div", <<"s", "i", "d", "e", "b", "a", "r">>),
                      PlainElement("img", <<>>), PlainElement("p", <<>>)>>, <<0, 1, 0>>))}

Converters == {"auto", "markdownify", "html2text", "pandoc"}

HasImg(html) == \E k \in DOMAIN html.nodes : html.nodes[k].tag = "img"

HasImage(t) == \E k \in DOMAIN t : t[k] = "!"

\* page_to_markdown before its first statement: the page of the current tab, the
\* arguments, and which of the converter libraries the import found
PageCall(page, include_images, remove_ads, extract_main, converter, add_metadata, m, h) ==
    [pc |-> "pm_begin", page |-> page, include_images |-> include_images,
     remove_ads |-> remove_ads, extract_main |-> extract_main, converter |-> converter,
     add_metadata |-> add_metadata, USE_MARKDOWNIFY |-> m, USE_HTML2TEXT |-> h,
     html |-> EmptyHtml, ignore_images |-> FALSE, converted |-> <<>>,
     markdown_content |-> <<>>, log |-> <<>>, file |-> <<>>, success |-> FALSE]

PageFail == md' = [md EXCEPT !.pc = "pm_done", !.success = FALSE]

\* ensure_browser(), get_current_tab(), tab.url, tab.title, html = tab.html; if not html
pm_begin ==
    /\ md.pc = "pm_begin"
    /\ \E ok \in BOOLEAN :
          IF ok /\ md.page # EmptyHtml
             THEN md' = [md EXCEPT !.pc = "pm_html", !.html = md.page]
             ELSE PageFail
    /\ UNCHANGED <<sessionvars, sw, hs, se, ff, et>>

\* if extract_main: html = _extract_main_content(html)
\* if remove_ads: html = _clean_html(html, remove_ads=True)
pm_html ==
    /\ md.pc = "pm_html"
    /\ LET main == IF md.extract_main THEN ExtractMainContent(md.html).html ELSE md.html
           clean == IF md.remove_ads THEN CleanHtml(main, TRUE) ELSE main
       IN  md' = [md EXCEPT !.pc = "pm_select", !.html = clean]
    /\ UNCHANGED <<sessionvars, sw, hs, se, ff, et>>

\* if converter == "auto": the first installed of markdownify, html2text
pm_select ==
    /\ md.pc = "pm_select"
    /\ IF md.converter # "auto" THEN md' = [md EXCEPT !.pc = "pm_convert"]
       ELSE IF md.USE_MARKDOWNIFY
               THEN md' = [md EXCEPT !.pc = "pm_convert", !.converter = "markdownify"]
       ELSE IF md.USE_HTML2TEXT
               THEN md' = [md EXCEPT !.pc = "pm_convert", !.converter = "html2text"]
       ELSE PageFail
    /\ UNCHANGED <<sessionvars, sw, hs, se, ff, et>>

\* the text a converter writes for html: an image markup for the images of the
\* html unless the converter was told to ignore images, then the text of the page
Converted(html, ignore_images, body) ==
    (IF HasImg(html) /\ ~ignore_images THEN <<"!">> ELSE <<>>) \o body

\* markdownify: _html_to_markdown_markdownify(html, strip=['script', 'style'])
\* html2text: _html_to_markdown_html2text(html, ignore_images=not include_images)
pm_convert ==
    /\ md.pc = "pm_convert"
    /\ \E ok \in BOOLEAN, n \in 0..MaxText :
          \E body \in BodyTexts(n) :
             IF md.converter = "markdownify" /\ md.USE_MARKDOWNIFY /\ ok
                THEN md' = [md EXCEPT !.pc = "pm_collapse", !.ignore_images = FALSE,
                                      !.converted = Converted(md.html, FALSE, body),
                                      !.markdown_content = Converted(md.html, FALSE, body)]
             ELSE IF md.converter = "html2text" /\ md.USE_HTML2TEXT /\ ok
                THEN md' = [md EXCEPT !.pc = "pm_collapse",
                                      !.ignore_images = ~md.include_images,
                                      !.converted = Converted(md.html, ~md.include_images, body),
                                      !.markdown_content =
                                          Converted(md.html, ~md.include_images, body)]
             ELSE PageFail
    /\ UNCHANGED <<sessionvars, sw, hs, se, ff, et>>

\* markdown_content = re.sub(r'\n{3,}', '\n\n', markdown_content)
pm_collapse ==
    /\ md.pc = "pm_collapse"
    /\ md' = [md EXCEPT !.pc = "pm_metadata",
                        !.markdown_content = Collapse(md.markdown_content),
                        !.log = Append(md.log, "collapse")]
    /\ UNCHANGED <<sessionvars, sw, hs, se, ff, et>>

\* if add_metadata: markdown_content = metadata + markdown_content
pm_metadata ==
    /\ md.pc = "pm_metadata"
    /\ IF md.add_metadata
          THEN md' = [md EXCEPT !.pc = "pm_save",
                                !.markdown_content = Metadata \o md.markdown_content,
                                !.log = Append(md.log, "metadata")]
          ELSE md' = [md EXCEPT !.pc = "pm_save"]
    /\ UNCHANGED <<sessionvars, sw, hs, se, ff, et>>

\* mkdir, open, f.write(markdown_content), the statistics and the result
pm_save ==
    /\ md.pc = "pm_save"
    /\ \E ok \in BOOLEAN :
          IF ok THEN md' = [md EXCEPT !.pc = "pm_done", !.file = md.markdown_content,
                                      !.success = TRUE]
                ELSE PageFail
    /\ UNCHANGED <<sessionvars, sw, hs, se, ff, et>>

InitPage ==
    /\ InitSession
    /\ hs = ScrollCall(0, FALSE)
    /\ \E page \in PageHtmls, converter \in Converters,
          include_images \in BOOLEAN, remove_ads \in BOOLEAN, extract_main \in BOOLEAN,
          add_metadata \in BOOLEAN, m \in BOOLEAN, h \in BOOLEAN :
             md = PageCall(page, include_images, remove_ads, extract_main, converter,
                           add_metadata, m, h)
    /\ se = NoCall /\ ff = NoCall /\ et = NoCall

NextPage ==
    pm_begin \/ pm_html \/ pm_select \/ pm_convert \/ pm_collapse \/ pm_metadata \/ pm_save

SpecPage == InitPage /\ [][NextPage]_vars

\* ------------------------------------------------------------------ claims
Done(t) == pc[t] = "done"

\* C1: when init_browser is called concurrently while no session exists, at most
\* one call launches a browser; and when no library call fails, every call
\* succeeds, exactly one browser was launched, at most one call reports the
\* fresh launch, and every call (fresh or already running) carries the status of
\* that one session: running, its first tab, one tab.
C1_ExactlyOneLaunch ==
    /\ launched <= 1
    /\ Cardinality({t \in Threads : Done(t) /\ result[t].kind = "init_new"}) <= 1
    /\ \A t \in Threads :
         (Done(t) /\ result[t].kind = "init_already") => (result[t].success /\ launched = 1)
    /\ \A t \in Threads :
         (Done(t) /\ ~anyFail) =>
            /\ result[t].kind \in {"init_new", "init_already"}
            /\ result[t].success
            /\ launched = 1 /\ browser = 1 /\ procs = {1}
            /\ result[t].running
            /\ result[t].tab = <<1, 1>> /\ result[t].tab = current_tab
            /\ result[t].tab_count = 1

C1_Witness ==
    /\ ~anyFail
    /\ \E t \in Threads, u \in Threads :
         /\ Done(t) /\ result[t].kind = "init_new"
         /\ Done(u) /\ result[u].kind = "init_already"
         /\ result[u].tab = result[t].tab

\* C2: at most one launched browser process that has not been torn down exists.
C2_AtMostOneProcess == Cardinality(procs) <= 1

\* C3: the step of close_browser that ends it, after quit() returned or raised,
\* leaves self._browser and self._current_tab None, so is_running() is false; and a
\* get_status that starts with the browser reference cleared reports running: False.
C3_CloseClearsBoth ==
    [][\A t \in Threads :
         /\ (pc[t] \in {"cb_ok_t", "cb_ex_t"} /\ pc'[t] # pc[t]) =>
               (browser' = None /\ current_tab' = NoTab /\ ~IsRunning')
         /\ (pc[t] = "gs_check" /\ browser = None /\ pc'[t] # pc[t]) =>
               (~result'[t].running /\ result'[t].kind = "status_not_init")]_vars

C3_Witness ==
    \E t \in Threads, u \in Threads :
       /\ Done(t) /\ result[t] = CloseFailed
       /\ Done(u) /\ op[u] = "get_status" /\ result[u] = StatusNotInit
       /\ browser = None /\ current_tab = NoTab /\ launched >= 1

\* C4: every write of self._browser or self._current_tab is made by a thread that
\* holds the lock.
C4_WritesHoldLock ==
    [][(browser' # browser \/ current_tab' # current_tab) =>
          \E t \in Threads : lock = t /\ pc'[t] # pc[t]]_vars

\* C5: a get_status that read self._browser as None at any of its reads returns
\* running: False.
C5_GoneIsNotRunning ==
    \A t \in Threads :
       (Done(t) /\ op[t] = "get_status" /\ sawGone[t]) => ~result[t].running

\* C6: when the tracked tab was closed while the browser runs, get_current_tab
\* does not return that closed tab.
C6_NoClosedTabReturned ==
    \A t \in Threads :
       (pc[t] \in {"gs_tab", "tc_got", "tl_tab"} /\ stale[t] # NoTab) => tab[t] # stale[t]

\* C7: starting with no session, ensure_browser calls (sequential or concurrent)
\* launch at most one browser, with the default options; when no library call
\* fails every call returns True and exactly one browser was launched.
C7_EnsureIdempotent ==
    /\ launched <= 1
    /\ \A b \in 1..launched : opts[b] = "default"
    /\ \A t \in Threads :
         (Done(t) /\ ~anyFail) =>
            (result[t] = EnsureRes(TRUE) /\ launched = 1 /\ IsRunning /\ procs = {1})

C7_Witness ==
    /\ ~anyFail /\ calls = MaxCalls /\ launched = 1
    /\ \A t \in Threads : Done(t) /\ result[t] = EnsureRes(TRUE)

\* the dicts that report a failure of the operation
FailureKinds ==
    {"status_err", "init_failed", "close_failed", "tool_failed", "unknown_tool", "call_error"}

\* C8: call_tool returns a result for every name, argument map and library
\* failure (no exception leaves it), and a failure is a dict with success: False
\* and an error string.
C8_FailuresAreValues ==
    \A t \in Threads :
       Done(t) =>
          /\ result[t].kind # "none"
          /\ result[t].kind \in FailureKinds =>
                ("success" \in result[t].keys /\ ~result[t].success
                 /\ "error" \in result[t].keys)

\* C9: every result call_tool returns is a mapping with a success field.
C9_ResultHasSuccess ==
    \A t \in Threads : Done(t) => "success" \in result[t].keys

\* C10: in handle_infinite_scroll, once a measurement equals the measurement
\* before it the call has returned (the loop stopped in that iteration) and no
\* scroll was issued afterwards; the scroll_count it reports is the number of
\* scroll-to-bottom actions performed, and that never exceeds max_scrolls.
C10_StopsWhenUnchanged ==
    /\ hs.equal => hs.pc = "returned"
    /\ ~hs.late
    /\ hs.scrolls <= hs.max_scrolls
    /\ hs.pc = "returned" =>
          (hs.success /\ hs.reported = hs.scrolls /\ hs.reported <= hs.max_scrolls)

C10_Witness ==
    /\ hs.pc = "returned" /\ hs.equal
    /\ hs.scrolls >= 2 /\ hs.scrolls < hs.max_scrolls
    /\ hs.reported = hs.scrolls

\* C11: a call whose first measurement is 0 is not stopped as converged by that
\* first iteration: with max_scrolls >= 2 it has scrolled at least twice when it
\* returns
C11_ZeroFirstIsNotConverged ==
    (hs.pc = "returned" /\ hs.first = 0 /\ hs.max_scrolls >= 2) => hs.scrolls >= 2

\* C12: the call always ends, with a result; the loop is left as exhausted only
\* after exactly max_scrolls iterations, it never scrolls more than max_scrolls
\* times (not at all when max_scrolls = 0), and a returned call left the loop
C12_Terminates ==
    /\ [](hs.scrolls <= hs.max_scrolls)
    /\ [](hs.stop = "exhausted" =>
            (hs.pc = "returned" /\ hs.success /\ hs.scrolls = hs.max_scrolls))
    /\ [](hs.pc = "returned" => hs.stop \in {"converged", "exhausted"})
    /\ <>(hs.pc \in {"returned", "failed"})

C12_Witness ==
    /\ hs.pc = "returned" /\ hs.stop = "exhausted"
    /\ hs.max_scrolls >= 2 /\ hs.scrolls = hs.max_scrolls
    /\ ~hs.equal /\ hs.first > 0

\* C13: in smart_extract a field whose sub-selector matches nothing, or whose
\* lookup raises, is null in its container's record and aborts nothing: once
\* containers were found the call does not fail, it returns success with one
\* record per container kept by the limit (all N of them when N <= limit), every
\* record has every field, and a field that matches nothing in any container is
\* null in every record
C13_MissingFieldIsNull ==
    /\ se.pc = "failed" => se.found = 0
    /\ se.pc = "returned" =>
         /\ se.success /\ se.count = Len(se.results)
         /\ Len(se.results) = SliceLen(se.found, se.limit)
         /\ se.found <= se.limit => Len(se.results) = se.found
         /\ \A c \in 1..Len(se.results) :
               /\ Len(se.results[c]) = se.nf
               /\ \A f \in se.dead : se.results[c][f] = "null"

C13_Witness ==
    /\ se.pc = "returned" /\ se.found = 2 /\ se.found <= se.limit
    /\ se.nf = 2 /\ se.dead = {1} /\ se.raised /\ se.missed
    /\ Len(se.results) = 2
    /\ \A c \in 1..2 : se.results[c][1] = "null" /\ se.results[c][2] # "null"

\* the selectors of the errors entries that fields contributed, in order
RECURSIVE FieldErrors(_)
FieldErrors(errs) ==
    IF errs = <<>> THEN <<>>
    ELSE IF Head(errs).sel = 0 THEN FieldErrors(Tail(errs))
    ELSE <<Head(errs).sel>> \o FieldErrors(Tail(errs))

\* the elements of a sequence
Range(q) == {q[x] : x \in DOMAIN q}

\* C14: fill_form is best-effort: once the loop has begun the call does not fail
\* as a whole; when it returns every selector of the mapping was processed, the
\* selectors that were found and written are exactly filled_fields, every
\* selector that failed has exactly one entry in errors and is not in
\* filled_fields, and success is false exactly when errors is non-empty
C14_BestEffort ==
    /\ ff.pc = "failed" => ff.i = 0
    /\ ff.pc \in {"return", "returned"} =>
         /\ Len(ff.outs) = ff.nf
         /\ Range(ff.filled_fields) = {f \in 1..ff.nf : ff.outs[f] = "ok"}
         /\ Range(FieldErrors(ff.errors)) = {f \in 1..ff.nf : ff.outs[f] # "ok"}
         /\ Len(ff.filled_fields) + Len(FieldErrors(ff.errors)) = ff.nf
         /\ Range(ff.filled_fields) \cap Range(FieldErrors(ff.errors)) = {}
    /\ ff.pc = "returned" => (ff.success <=> ff.errors = <<>>)

C14_Witness ==
    /\ ff.pc = "returned" /\ ff.nf = 2 /\ ~ff.submit_selector
    /\ ff.outs = <<"raised", "ok">>
    /\ ~ff.success /\ ff.filled_fields = <<2>>
    /\ ff.errors = <<Failure("raised", 1)>>

\* the positions of the log at which the event is e
At(e) == {p \in DOMAIN ff.log : ff.log[p].ev = e}

\* C15: the submit button is looked up and clicked at most once, and only after
\* every field of the mapping was attempted: no call on a field follows a call
\* on the submit button; a call that was given a submit selector has looked the
\* button up exactly once when it returns, also when fields failed, and one that
\* was given none never does; submitted is true exactly when the click was
\* performed, and the settle delay directly follows the click
C15_SubmitAfterAllFields ==
    /\ Cardinality(At("ele_submit")) <= 1 /\ Cardinality(At("click")) <= 1
    /\ \A p \in DOMAIN ff.log, q \in DOMAIN ff.log :
          (p < q /\ ff.log[p].sel = 0) => ff.log[q].sel = 0
    /\ At("ele_submit") # {} => (Len(ff.outs) = ff.nf /\ ff.submit_selector)
    /\ \A p \in At("click") : At("ele_submit") = {p - 1}
    /\ ff.submitted <=> At("click") # {}
    /\ At("sleep") = {p + 1 : p \in At("click")}
    /\ ff.pc \in {"return", "returned"} =>
          (ff.submit_selector <=> At("ele_submit") # {})

C15_Witness ==
    /\ ff.pc = "returned" /\ ff.nf = 2 /\ ff.submit_selector
    /\ ff.outs = <<"ok", "raised">> /\ ff.submitted /\ ~ff.success
    /\ At("click") = {Len(ff.log) - 1}
    /\ At("input") # {}

\* C16: for a table with no thead whose first row has cells (and whose rows all
\* lie in its tbody when it has one), a json call with
\* include_header returns the first row's cells as headers and one record per
\* later row that has a cell, in document order, keyed by header; row_count is
\* the number of records
C16_HeaderRowThenRecords ==
    (/\ et.pc = "returned" /\ et.format = "json" /\ et.include_header
     /\ ~et.table.thead.present /\ AllRows(et.table) # <<>>
     /\ et.table.tbody.present => et.table.rest = <<>>
     /\ HeaderCells(AllRows(et.table)[1]) # <<>>) =>
        LET later == Tail(AllRows(et.table))
            cells == SelectSeq([x \in DOMAIN later |-> RowData(later[x])],
                               LAMBDA r : r # <<>>)
        IN  /\ et.success
            /\ et.headers = StripAll(HeaderCells(AllRows(et.table)[1]))
            /\ et.data = [x \in DOMAIN cells |-> ZipDict(et.headers, cells[x])]
            /\ et.row_count = Len(et.data)

\* C17: when a header was found every record of the json result has exactly the
\* header's keys, in header order (the keys a row with one cell per header cell
\* gives); when none was found the rows are returned as lists
C17_RecordsHaveHeaderKeys ==
    (et.pc = "returned" /\ et.format = "json") =>
        /\ et.headers # <<>> =>
              \A x \in DOMAIN et.data :
                 Keys(et.data[x]) = Keys(ZipDict(et.headers, et.headers))
        /\ et.headers = <<>> => et.data = et.rows

\* the place of an element in the priority order main, article, [role=main],
\* .main-content, #main-content, .content, #content, .post-content,
\* .article-content (0: it matches none of them)
Rank(n) ==
    IF n.tag = "main" THEN 1
    ELSE IF n.tag = "article" THEN 2
    ELSE IF n.role = "main" THEN 3
    ELSE IF <<"m", "a", "i", "n", "-", "c", "o", "n", "t", "e", "n", "t">> \in Tokens(n.class, <<>>) THEN 4
    ELSE IF n.id = <<"m", "a", "i", "n", "-", "c", "o", "n", "t", "e", "n", "t">> THEN 5
    ELSE IF <<"c", "o", "n", "t", "e", "n", "t">> \in Tokens(n.class, <<>>) THEN 6
    ELSE IF n.id = <<"c", "o", "n", "t", "e", "n", "t">> THEN 7
    ELSE IF <<"p", "o", "s", "t", "-", "c", "o", "n", "t", "e", "n", "t">> \in Tokens(n.class, <<>>) THEN 8
    ELSE IF <<"a", "r", "t", "i", "c", "l", "e", "-", "c", "o", "n", "t", "e", "n", "t">> \in Tokens(n.class, <<>>) THEN 9
    ELSE 0

\* C18: main-content extraction returns the subtree of the first element, in
\* document order, of the best rank that occurs in the document, wherever the
\* elements of other ranks lie; a document without such an element gives its
\* body, and one without a body is returned as it is
C18_MainByPriority ==
    md.pc = "extracted" =>
        LET nodes == md.html.nodes
            ranked == {x \in DOMAIN nodes : Rank(nodes[x]) # 0}
            best == {x \in ranked : \A y \in ranked : Rank(nodes[x]) <= Rank(nodes[y])}
        IN  IF ranked # {}
               THEN LET x == CHOOSE x \in best : \A y \in best : x <= y
                    IN  /\ md.how = "selector"
                        /\ md.out = Html(TRUE, Renumber(nodes, Subtree(nodes, x)))
            ELSE IF md.html.body THEN md.how = "body" /\ md.out = md.html
            ELSE md.how = "document" /\ md.out = md.html

C18_Witness ==
    /\ md.pc = "extracted" /\ md.how = "selector"
    /\ Len(md.html.nodes) = 3
    /\ md.html.nodes[1].tag = "article" /\ md.html.nodes[2].tag = "main"
    /\ md.html.nodes[2].parent = 0 /\ md.html.nodes[3].parent = 2
    /\ Len(md.out.nodes) = 2 /\ md.out.nodes[1].tag = "main"

\* an element of the denylist: a script, style, iframe or noscript element, an
\* element whose class or id contains ad-, advertisement, social-share or cookie,
\* or an element with the class sidebar, footer or header-ad
Denied(n) ==
    \/ n.tag \in {"script", "style", "iframe", "noscript"}
    \/ \E needle \in {<<"a", "d", "-">>, <<"a", "d", "v", "e", "r", "t", "i", "s", "e", "m", "e", "n", "t">>,
                       <<"s", "o", "c", "i", "a", "l", "-", "s", "h", "a", "r", "e">>, <<"c", "o", "o", "k", "i", "e">>} :
          Contains(n.class, needle) \/ Contains(n.id, needle)
    \/ Tokens(n.class, <<>>) \cap {<<"s", "i", "d", "e", "b", "a", "r">>, <<"f", "o", "o", "t", "e", "r">>, <<"h", "e", "a", "d", "e", "r", "-", "a", "d">>} # {}

\* C19: the html that the sanitizer returns holds no element of the denylist
C19_NoDeniedElementLeft ==
    md.pc \in {"cleaned", "done"} =>
        \A x \in DOMAIN md.out.nodes : ~Denied(md.out.nodes[x])

\* the positions of the elements that match a selector of the sanitizer
Listed(nodes) ==
    {x \in DOMAIN nodes :
        \E i \in DOMAIN clean_selectors : Matches(nodes[x], clean_selectors[i])}

\* C20: the sanitizer returns the document without the subtrees rooted at the
\* elements that match one of its selectors, and nothing else is missing: every
\* element outside those subtrees is kept, in place; an element that matches
\* inside a removed subtree stops nothing; and the sanitizer returns its own
\* result unchanged
C20_RemovesExactlyTheSubtrees ==
    /\ md.pc \in {"cleaned", "done"} =>
          LET nodes == md.html.nodes
              gone == UNION {Subtree(nodes, x) : x \in Listed(nodes)}
          IN  md.out = (IF md.html.body THEN Html(TRUE, Renumber(nodes, DOMAIN nodes \ gone))
                                        ELSE EmptyHtml)
    /\ md.pc = "done" => md.again = md.out

C20_Witness ==
    /\ md.pc = "done" /\ Len(md.html.nodes) = 3
    /\ Listed(md.html.nodes) = {1, 2}
    /\ md.html.nodes[2].parent = 1 /\ md.html.nodes[3].parent = 0
    /\ Matches(md.html.nodes[1], clean_selectors[5])
    /\ Matches(md.html.nodes[2], clean_selectors[5])
    /\ Len(md.out.nodes) = 1 /\ md.again = md.out


\* t has three or more newlines in a row
Run3(t) == \E k \in 1..(Len(t) - 2) : t[k] = "\n" /\ t[k + 1] = "\n" /\ t[k + 2] = "\n"

\* C21: the blank-line collapse of page_to_markdown is idempotent, collapse(collapse(x))
\* = collapse(x) for the converted text x, and collapse(x) has no run of three or more
\* newlines.
C21_CollapseIdempotent ==
    md.pc \in {"pm_metadata", "pm_save", "pm_done"} /\ md.log # <<>> =>
        LET x == md.converted
        IN  /\ Collapse(Collapse(x)) = Collapse(x)
            /\ ~Run3(Collapse(x))
            /\ md.pc = "pm_metadata" => md.markdown_content = Collapse(x)

C21_Witness ==
    /\ md.pc = "pm_metadata"
    /\ Run3(md.converted) /\ Len(md.converted) = 4 /\ md.converted[1] = "a"
    /\ md.markdown_content = <<"a", "\n", "\n">>

\* C22: with add_metadata the header is prepended once and before the collapse, so the
\* saved document is a fixed point of the collapse: it has no run of three or more
\* newlines, the boundary of header and body included.
C22_SavedIsCollapsed ==
    md.pc = "pm_done" /\ md.success /\ md.add_metadata =>
        /\ md.log = <<"metadata", "collapse">>
        /\ Collapse(md.file) = md.file
        /\ ~Run3(md.file)

\* C23: page_to_markdown includes or excludes images as include_images says, whichever
\* converter is selected: with include_images false the converter is called with image
\* exclusion and the text has no image.
C23_ImagesAsAsked ==
    md.pc \in {"pm_collapse", "pm_metadata", "pm_save"} /\ ~md.include_images =>
        /\ md.ignore_images
        /\ ~HasImage(md.markdown_content)


\* the last call of thread t was an init_browser that returned success: True
InitReturned(t) == op[t] = "init_browser" /\ pc[t] = "done" /\ result[t].success

\* C24: after init_browser returned success: True (fresh launch or already running) the
\* session is running, for as long as close_browser is not called: is_running() is true,
\* the status in the result says running: True, and every get_status that returns says
\* running: True.  (Stated for the runs in which no library call fails of itself.)
C24_RunningUntilClosed ==
    [][\A t \in Threads :
          InitReturned(t) /\ ~anyFail' =>
              /\ IsRunning'
              /\ result[t].running
              /\ \A u \in Threads :
                    op[u] = "get_status" /\ pc[u] # "done" /\ pc'[u] = "done"
                        => result'[u].running]_vars

\* C25: a tool operation re-validates its tab before use: when close_browser completed
\* after the operation obtained the current tab and before its calls on the tab, the
\* operation issues no call on the torn-down tab handle (and reports a failure).
C25_NoCallOnTornDownTab ==
    [][\A t \in Threads :
          /\ pc[t] = "tl_act"
          /\ tab[t][1] \notin procs
          /\ \A u \in Threads : ~(op[u] = "close_browser" /\ pc[u] # "done")
          => pc'[t] = "tl_act"]_vars

\* C26: for a checkbox or radio input fill_form clicks the element only when its
\* checked state differs from the truth of the value; so, the click toggling the
\* state, a field that was written ends with checked = truthy(value), and the same
\* call made a second time does not click it.
C26_ClicksOnlyOnDifference ==
    \A f \in 1..ff.nf :
       LET one == IF ff.run = 1 THEN [outs |-> ff.outs, clicked |-> Clicks(ff.log)]
                                ELSE ff.first
           toggles == ff.form0[f].kind = "checkbox" \/ ~ff.form0[f].checked
       IN  f <= Len(one.outs) /\ one.outs[f] = "ok"
           /\ ff.form0[f].kind \in {"checkbox", "radio"} =>
               /\ f \in one.clicked <=> (ff.form0[f].checked # ff.vals[f])
               /\ toggles =>
                     /\ ff.form[f].checked = ff.vals[f]
                     /\ ff.run = 2 => f \notin Clicks(ff.log)

C26_Witness ==
    /\ ff.run = 2 /\ ff.pc = "returned" /\ ff.nf = 2
    /\ ff.form0 = <<FormElement("checkbox", TRUE), FormElement("radio", FALSE)>>
    /\ ff.vals = <<FALSE, TRUE>>
    /\ ff.first.outs = <<"ok", "ok">> /\ ff.outs = <<"ok", "ok">>
    /\ ff.first.clicked = {1, 2}
    /\ ff.form = <<FormElement("checkbox", FALSE), FormElement("radio", TRUE)>>


\* C27: when init_browser returns success: False no session exists afterwards: the
\* browser reference and the current-tab reference are both None (so is_running() is
\* false and a later init_browser launches again), also when the browser was launched
\* and obtaining the initial tab failed.
C27_FailedInitLeavesNoSession ==
    [][\A t \in Threads :
          pc[t] \in {"ib_launch", "ib_tab"} /\ result'[t] = InitFailed =>
              /\ browser' = None /\ current_tab' = NoTab
              /\ ~IsRunning']_vars

\* C28: under any interleaving of close_browser with switch_to_tab and get_current_tab,
\* a None browser reference implies a None current-tab reference: no tab handle stays
\* tracked once the session is closed.  (Stated for the states outside close_browser's
\* own two assignments.)
C28_NoTabWithoutBrowser ==
    (browser = None /\ \A t \in Threads : pc[t] \notin {"cb_ok_t", "cb_ex_t"})
        => current_tab = NoTab

\* the places, in document order, of the rows of t whose cells became the headers
HeaderPlaces(t) ==
    IF t.thead.present /\ TheadCells(t) # <<>>
       THEN {p \in 1..Len(t.thead.rows) :
               IF \E q \in 1..Len(t.thead.rows) : t.thead.rows[q].th # <<>>
                  THEN t.thead.rows[p].th # <<>> ELSE t.thead.rows[p].td # <<>>}
    ELSE IF AllRows(t) # <<>> /\ HeaderCells(AllRows(t)[1]) # <<>> THEN {1}
    ELSE {}

\* the places of the rows of tr_list
ListedPlaces(t, headers, include_header) ==
    IF t.tbody.present
       THEN (Len(t.thead.rows) + 1)..(Len(t.thead.rows) + Len(t.tbody.rows))
    ELSE IF headers # <<>> /\ include_header THEN 2..Len(AllRows(t))
    ELSE 1..Len(AllRows(t))

\* C29: for every table shape, with or without thead and tbody, the row whose cells
\* extract_table_data took as the header is not also emitted as a data record.
\* (Stated for calls with include_header and tables whose rows lie in the tbody when
\* there is one.)
C29_HeaderRowIsNoRecord ==
    (/\ et.pc \in {"format", "returned"} /\ et.include_header
     /\ et.table.tbody.present => et.table.rest = <<>>) =>
        LET t == et.table
            listed == ListedPlaces(t, et.headers, et.include_header)
        IN  /\ et.rows = DataRows([x \in 1..Cardinality(listed) |->
                                     AllRows(t)[x + Len(AllRows(t)) - Cardinality(listed)]])
            /\ \A p \in HeaderPlaces(t) :
                  ~(p \in listed /\ RowData(AllRows(t)[p]) # <<>>)

\* the first tab of the list q whose url (title) contains the pattern, or NoTab
RECURSIVE FirstWith(_, _, _)
FirstWith(q, by, pattern) ==
    IF q = <<>> THEN NoTab
    ELSE IF Contains(IF by = "url" THEN Url(Head(q)) ELSE Title(Head(q)), pattern)
       THEN Head(q)
    ELSE FirstWith(Tail(q), by, pattern)

\* the tab the request asks for, among the tabs the browser listed: by index before
\* url, by url before title_pattern; NoTab when the index is out of range, when no
\* listed tab has the pattern, or when no criterion is given
Asked(s) ==
    IF s.index # <<>>
       THEN (IF 0 <= s.index[1] /\ s.index[1] < Len(s.tabs) THEN s.tabs[s.index[1] + 1]
                                                           ELSE NoTab)
    ELSE IF s.url # <<>> THEN FirstWith(s.tabs, "url", s.url)
    ELSE IF s.title_pattern # <<>> THEN FirstWith(s.tabs, "title", s.title_pattern)
    ELSE NoTab

====
